---- MODULE Spec2Model ----
(***************************************************************************)
(* Model of DocGenerator (src/unnamed/part_000): task materialization, the *)
(* sliding-window scheduler (#runNext), the per-task state machine         *)
(* (#processTask), index finalization (#finishProcessing) and the SIGINT   *)
(* handler installed by run().                                             *)
(*                                                                         *)
(* JavaScript runs one synchronous segment at a time; an action of this    *)
(* model is one such segment: from the event that resumes the code (an     *)
(* awaited call settling, a timer firing, a signal) to the next await.     *)
(* Promise continuations (.finally) are microtasks and run before any      *)
(* other event, so a task's last segment and its continuation are one      *)
(* action.                                                                 *)
(*                                                                         *)
(* Strings are sequences of one-character strings.                         *)
(***************************************************************************)
EXTENDS Integers, Sequences, FiniteSets, TLC

\* ------------------------------------------------------------------ bounds
\* Largest number of crawled pages handed to materialization.
MaxPages == 3
\* Largest value of options.maxConcurrent explored.
MaxConcurrent == 2
\* MAX_CHUNK_SIZE (120000 in the source), scaled down.
MAX_CHUNK_SIZE == 6
\* breakWindow (500 in the source), scaled down.
breakWindow == 2
\* Longest --maxConcurrent string explored.
MaxRawLen == 3
\* The literal 20 of the crawl's queue condition (line 288), scaled down.
QueueCap == 5
\* Longest page body the chunking loop is explored on exhaustively.
MaxBodyLen == 7
\* Most marker characters in a body of the 3-chunk scenario.
MaxMarks == 2

\* --------------------------------------------------------------- sequences
Min(a, b) == IF a < b THEN a ELSE b
Max(a, b) == IF a > b THEN a ELSE b

RECURSIVE Flatten(_, _)
\* Array.prototype.join: the elements of ss with sep between them.
Flatten(ss, sep) ==
    IF ss = << >> THEN << >>
    ELSE IF Len(ss) = 1 THEN ss[1]
    ELSE ss[1] \o sep \o Flatten(Tail(ss), sep)

Range(s) == { s[i] : i \in DOMAIN s }

\* String.prototype.substring(from, to), 0-based, to exclusive.
Substring(s, from, to) == SubSeq(s, from + 1, to)

\* --------------------------------------------------------------- #sanitize
LowerCase(c) ==
    CASE c = "A" -> "a"
      [] c = "B" -> "b"
      [] OTHER -> c

IsSpace(c) == c = " "
IsAlnumOrHyphen(c) ==
    c \in {"a", "b", "c", "d", "e", "i", "m", "n", "s", "x", "1", "-"}

RECURSIVE SpacesToHyphen(_)
\* .replace(/\s+/g, "-"): every run of whitespace becomes one hyphen.
SpacesToHyphen(s) ==
    IF s = << >> THEN << >>
    ELSE IF IsSpace(s[1])
         THEN IF Len(s) > 1 /\ IsSpace(s[2])
              THEN SpacesToHyphen(Tail(s))
              ELSE << "-" >> \o SpacesToHyphen(Tail(s))
         ELSE << s[1] >> \o SpacesToHyphen(Tail(s))

\* .replace(/[^a-z0-9-]/g, "")
StripInvalid(s) == SelectSeq(s, IsAlnumOrHyphen)

RECURSIVE CollapseHyphens(_)
\* .replace(/--+/g, "-")
CollapseHyphens(s) ==
    IF Len(s) < 2 THEN s
    ELSE IF s[1] = "-" /\ s[2] = "-" THEN CollapseHyphens(Tail(s))
    ELSE << s[1] >> \o CollapseHyphens(Tail(s))

RECURSIVE TrimLeft(_)
TrimLeft(s) ==
    IF s # << >> /\ s[1] = "-" THEN TrimLeft(Tail(s)) ELSE s

RECURSIVE TrimRight(_)
TrimRight(s) ==
    IF s # << >> /\ s[Len(s)] = "-" THEN TrimRight(SubSeq(s, 1, Len(s) - 1)) ELSE s

\* .replace(/^-+|-+$/g, "")
TrimHyphens(s) == TrimRight(TrimLeft(s))

sanitize(text) ==
    IF text = << >> THEN << >>
    ELSE TrimHyphens(CollapseHyphens(StripInvalid(SpacesToHyphen(
             [i \in 1..Len(text) |-> LowerCase(text[i])]))))

\* -------------------------------------------------- #generateFilenameFromUrl
\* A URL is [origin, segs]: segs is url.pathname.split("/").filter(Boolean).
\* Filenames are given without their ".md" extension.
ROOT_FILENAME == << "_", "i", "n", "d", "e", "x" >>
\* The values Date.now() takes as time passes, in order.
Timestamps == << "1", "2", "3" >>
\* Date.now() while run() materializes its tasks.
RunClock == Timestamps[1]
\* `page-${Date.now()}`: the fallback when sanitization leaves nothing.
FALLBACK_FILENAME(now) == << "p", "a", "g", "e", "-", now >>

IsPrefix(p, s) == Len(p) <= Len(s) /\ SubSeq(s, 1, Len(p)) = p

generateFilenameFromUrl(url, basePathSegments, now) ==
    LET pathSegments == url.segs
        segmentsToUse ==
            IF Len(basePathSegments) > 0 /\ IsPrefix(basePathSegments, pathSegments)
            THEN SubSeq(pathSegments, Len(basePathSegments) + 1, Len(pathSegments))
            ELSE pathSegments
        sanitized == sanitize(Flatten(segmentsToUse, << "-" >>))
    IN  IF segmentsToUse = << >> THEN ROOT_FILENAME
        ELSE IF sanitized # << >> THEN sanitized
        ELSE FALLBACK_FILENAME(now)

\* ------------------------------------------------ #processTask: chunking
endings ==
    << << ".", " " >>, << ".", "\n" >>, << "!", " " >>, << "!", "\n" >>,
       << "?", " " >>, << "?", "\n" >>, << "\n" >> >>

\* String.prototype.lastIndexOf(e, from): the largest 0-based index i <= from
\* at which e occurs in s, or -1.
lastIndexOf(s, e, from) ==
    LET hits == { i \in 0..Min(from, Len(s) - Len(e)) :
                    Substring(s, i, i + Len(e)) = e }
    IN  IF hits = {} THEN -1 ELSE CHOOSE i \in hits : \A j \in hits : j <= i

RECURSIVE MaxOf(_)
MaxOf(S) ==
    IF S = {} THEN -1
    ELSE LET x == CHOOSE y \in S : TRUE IN Max(x, MaxOf(S \ {x}))

\* Mutant of ChunkEnd: the test pt >= searchStart is missing.
ChunkEndWithoutWindow(bodyHTML, currentIndex) ==
    LET end == Min(currentIndex + MAX_CHUNK_SIZE, Len(bodyHTML))
        candidates ==
            { lastIndexOf(bodyHTML, endings[k], end - 1) + Len(endings[k]) :
                k \in { k \in 1..Len(endings) :
                          lastIndexOf(bodyHTML, endings[k], end - 1) # -1 } }
        bestBreak == MaxOf(candidates)
    IN  IF end < Len(bodyHTML) /\ bestBreak # -1 /\ bestBreak > currentIndex
        THEN bestBreak
        ELSE end

\* Mutant of ChunkEnd: the search goes back to the cursor, the cut is put at
\* the start of the marker, and the test bestBreak > currentIndex is left
\* out.
ChunkEndAtMarker(bodyHTML, currentIndex) ==
    LET end == Min(currentIndex + MAX_CHUNK_SIZE, Len(bodyHTML))
        candidates ==
            { lastIndexOf(bodyHTML, endings[k], end - 1) :
                k \in { k \in 1..Len(endings) :
                          LET pt == lastIndexOf(bodyHTML, endings[k], end - 1)
                          IN  pt # -1 /\ pt >= currentIndex } }
        bestBreak == MaxOf(candidates)
    IN  IF end < Len(bodyHTML) /\ bestBreak # -1
        THEN bestBreak
        ELSE end

\* One iteration of the while loop: the end of the chunk starting at
\* currentIndex.
ChunkEnd(bodyHTML, currentIndex) ==
    LET end == Min(currentIndex + MAX_CHUNK_SIZE, Len(bodyHTML))
        searchStart == Max(currentIndex, end - breakWindow)
        candidates ==
            { lastIndexOf(bodyHTML, endings[k], end - 1) + Len(endings[k]) :
                k \in { k \in 1..Len(endings) :
                          LET pt == lastIndexOf(bodyHTML, endings[k], end - 1)
                          IN  pt # -1 /\ pt >= searchStart } }
        bestBreak == MaxOf(candidates)
    IN  IF end < Len(bodyHTML) /\ bestBreak # -1 /\ bestBreak > currentIndex
        THEN bestBreak
        ELSE end

RECURSIVE ChunksFrom(_, _)
ChunksFrom(bodyHTML, currentIndex) ==
    IF currentIndex < Len(bodyHTML)
    THEN LET end == ChunkEnd(bodyHTML, currentIndex)
         IN  << Substring(bodyHTML, currentIndex, end) >> \o ChunksFrom(bodyHTML, end)
    ELSE << >>

\* The chunks sent to generateObject: the chunk list when the body is longer
\* than MAX_CHUNK_SIZE, the whole body otherwise.
Chunks(bodyHTML) ==
    IF Len(bodyHTML) > MAX_CHUNK_SIZE THEN ChunksFrom(bodyHTML, 0) ELSE << bodyHTML >>

\* ------------------------------------------------------------------ inputs
NULL == << "null" >>
\* `!bodyHTML`: null and the empty string are both falsy.
Falsy(bodyHTML) == bodyHTML = NULL \/ bodyHTML = << >>

Url(segs) == [origin |-> "https://site", segs |-> segs]
NoUrl == Url(<< >>)
\* Path segments of options.baseUrl, https://site/d.
baseUrlPathSegments == << << "d" >> >>

\* The crawl results materialization is explored on: the sub-sequences of at
\* most MaxPages entries of this Map (in insertion order).  /d/a/b and /d/a-b
\* derive the same filename; /d/c failed to load; /d/a/b needs chunking.
Site ==
    << [url |-> Url(<< << "d" >> >>), bodyHTML |-> << "x", "x" >>],
       [url |-> Url(<< << "d" >>, << "a" >>, << "b" >> >>),
        bodyHTML |-> << "x", "x", "x", "x", ".", " ", "x", "x" >>],
       [url |-> Url(<< << "d" >>, << "a", "-", "b" >> >>), bodyHTML |-> << "y" >>],
       [url |-> Url(<< << "d" >>, << "c" >> >>), bodyHTML |-> NULL],
       [url |-> Url(<< << "d" >>, << "B" >> >>), bodyHTML |-> << "z", "\n", "z" >>] >>

RECURSIVE Pick(_, _, _)
\* The entries of s at the positions in S, in order.
Pick(s, S, i) ==
    IF i > Len(s) THEN << >>
    ELSE (IF i \in S THEN << s[i] >> ELSE << >>) \o Pick(s, S, i + 1)

DataMaps ==
    { Pick(Site, S, 1) :
        S \in { T \in SUBSET (1..Len(Site)) : T # {} /\ Cardinality(T) <= MaxPages } }

FilenamesOf(dm) ==
    { generateFilenameFromUrl(dm[i].url, baseUrlPathSegments, RunClock) :
        i \in { j \in 1..Len(dm) : ~Falsy(dm[j].bodyHTML) } }

\* The artifacts found on disk before the run: none, one, or all of those the
\* run derives (with the regenerate flag, which overwrites them all alike:
\* none or all).
ExistingChoices(names, regenerate) ==
    { {}, names } \cup (IF regenerate THEN {} ELSE { { f } : f \in names })

\* What a file on disk holds: an artifact of an earlier run (gen = 0) or the
\* markdown this run generated from the page at url (gen = 1).
OldContent == [gen |-> 0, url |-> NoUrl]
NewContent(url) == [gen |-> 1, url |-> url]

\* ------------------------------------------------------------- index text
\* The index file is a sequence of tokens: the header, entries, and the
\* "\n\n" separator.
Header == [tok |-> "header", path |-> << >>, error |-> FALSE, desc |-> "", exec |-> 0]
Sep == [tok |-> "sep", path |-> << >>, error |-> FALSE, desc |-> "", exec |-> 0]
\* An index entry {title, description, path}.  error: the path carries the
\* ".error" suffix.  exec (not in the source) is the position in tasksToRun of
\* the execution that pushed the entry, 0 for a placeholder.
Entry(path, error, desc, exec) ==
    [tok |-> "entry", path |-> path, error |-> error, desc |-> desc, exec |-> exec]

\* An index file left by an earlier run.
OldIndex == << Header, Entry(<< "o", "l", "d" >>, FALSE, "generated", 0) >>
NoFile == [exists |-> FALSE, content |-> << >>]
FileWith(content) == [exists |-> TRUE, content |-> content]

\* The index file found before the run: the run that left artifacts left an
\* index too; with no artifact there may be one or none.
IndexChoices(existing) ==
    IF existing = {} THEN { NoFile, FileWith(OldIndex) } ELSE { FileWith(OldIndex) }

\* e.path as written in the index: the artifact path, plus ".error".
PathString(e) ==
    e.path \o << ".", "m", "d" >>
           \o (IF e.error THEN << ".", "e", "r", "r", "o", "r" >> ELSE << >>)

\* Collation order of the characters that occur in paths.
Collation ==
    << "_", "-", ".", "1", "a", "b", "c", "d", "e", "g", "i", "l", "m", "n",
       "o", "p", "r", "t", "x" >>
Rank(c) == CHOOSE i \in 1..Len(Collation) : Collation[i] = c

RECURSIVE localeCompare(_, _)
\* a.localeCompare(b): negative, zero or positive.
localeCompare(a, b) ==
    IF a = << >> /\ b = << >> THEN 0
    ELSE IF a = << >> THEN -1
    ELSE IF b = << >> THEN 1
    ELSE IF Rank(a[1]) < Rank(b[1]) THEN -1
    ELSE IF Rank(a[1]) > Rank(b[1]) THEN 1
    ELSE localeCompare(Tail(a), Tail(b))

RECURSIVE InsertSorted(_, _)
\* e placed after every element that does not compare greater (stable).
InsertSorted(sorted, e) ==
    IF sorted = << >> THEN << e >>
    ELSE IF localeCompare(PathString(sorted[1]), PathString(e)) > 0
         THEN << e >> \o sorted
         ELSE << sorted[1] >> \o InsertSorted(Tail(sorted), e)

RECURSIVE SortByPath(_)
\* entries.sort((a, b) => a.path.localeCompare(b.path)); Array.sort is stable.
SortByPath(entries) ==
    IF entries = << >> THEN << >>
    ELSE InsertSorted(SortByPath(SubSeq(entries, 1, Len(entries) - 1)),
                      entries[Len(entries)])

\* entries.map(format).join("\n\n")
FormatEntries(entries) ==
    Flatten([i \in 1..Len(entries) |-> << entries[i] >>], << Sep >>)

RECURSIVE PlaceholdersForEverySuccess(_, _, _)
\* Mutant of Placeholders: the processedPaths test is missing.
PlaceholdersForEverySuccess(keys, ts, processedPaths) ==
    IF keys = << >> THEN << >>
    ELSE (IF ts[keys[1]].status = "success"
          THEN << Entry(keys[1], FALSE, "existing", 0) >> ELSE << >>)
         \o PlaceholdersForEverySuccess(Tail(keys), ts, processedPaths)

RECURSIVE Placeholders(_, _, _)
\* The loop over tasksState (in key insertion order): an "(Existing File)"
\* entry for every task with status success whose path no entry names.
Placeholders(keys, ts, processedPaths) ==
    IF keys = << >> THEN << >>
    ELSE LET e == Entry(keys[1], FALSE, "existing", 0)
         IN  (IF ts[keys[1]].status = "success" /\ PathString(e) \notin processedPaths
              THEN << e >> ELSE << >>)
             \o Placeholders(Tail(keys), ts, processedPaths)

generateIndexContent(entries, keys, ts) ==
    LET processedPaths == { PathString(entries[i]) : i \in 1..Len(entries) }
        entriesToAdd == entries \o Placeholders(keys, ts, processedPaths)
    IN  << Header >> \o FormatEntries(SortByPath(entriesToAdd))

\* ------------------------------------------------------------------- state
VARIABLES
    argv,               \* the options as given on the command line or at the
                        \* prompts, before run() parses them
    crawl,              \* #crawlWebsite: [pc, queue, collectedData, currentUrl, fetches,
                        \* dropped]
    chunker,            \* the chunking loop: [bodyHTML, currentIndex, chunks, cuts, pc]
    helper,             \* calls of the helper methods on one URL string:
                        \* [url, normalized, now, filenames]
    dataMap,            \* the crawl result: sequence of [url, bodyHTML]
    options,            \* [shouldRegenerate, maxConcurrent]
    files,              \* artifact files in siteDocsDir: filename -> content
    indexFile,          \* <siteDocsDir>/index.md: [exists, content]
    initial,            \* files and indexFile as they were before the run
    pc,                 \* "options" | "crawl" | "prepare" | "tasks" | "exit"
    exitCode,           \* process exit status, -1 while running
    tasksState,         \* relativePath -> task record
    taskKeys,           \* key insertion order of the tasksState object
    tasksToRun,         \* sequence of relativePath
    generationStats,    \* [success, error, skipped]
    indexEntries,       \* sequence of entries
    activePromises,     \* keys of the Map relativePath -> promise
    taskQueueIndex,
    processingFinished,
    execs,              \* per position of tasksToRun: the #processTask call
    finishers,          \* the scheduled / running #finishProcessing calls
    emptySeen,          \* number of #runNext calls that saw "queue done, none active"
    indexWrites         \* the writes of the index file so far: [by, n], by
                        \* "finish" | "sigint", n the entries of this run written

vars ==
    << argv, crawl, chunker, helper, dataMap, options, files, indexFile, initial, pc,
       exitCode, tasksState,
       taskKeys, tasksToRun, generationStats, indexEntries, activePromises,
       taskQueueIndex, processingFinished, execs, finishers, emptySeen,
       indexWrites >>

\* An execution of #processTask.  pc: "pending" (not admitted), "generating"
\* (awaiting generateObject for chunk `chunk`), "saving" (awaiting writeFile),
\* "done".  calls counts the generateObject calls made; failedAt is "" or the
\* step that threw ("generate" | "write").
PendingExec ==
    [pc |-> "pending", chunk |-> 0, nChunks |-> 0, calls |-> 0, result |-> "none",
     failedAt |-> ""]

\* The parts of the state a specification does not exercise.
NoArgv == << >>
NoCrawl == << >>
NoChunker == << >>
NoHelper == << >>

\* The run from the moment `await fsp.mkdir` is pending (line 1004): the crawl
\* has returned dataMap, the options are valid.
Init ==
    /\ argv = NoArgv
    /\ crawl = NoCrawl
    /\ chunker = NoChunker
    /\ helper = NoHelper
    /\ dataMap \in DataMaps
    /\ options \in [shouldRegenerate : BOOLEAN, maxConcurrent : 1..MaxConcurrent]
    /\ \E existing \in ExistingChoices(FilenamesOf(dataMap), options.shouldRegenerate) :
           files = [f \in existing |-> OldContent]
    /\ indexFile \in IndexChoices(DOMAIN files)
    /\ initial = [files |-> files, indexFile |-> indexFile]
    /\ pc = "prepare"
    /\ exitCode = -1
    /\ tasksState = << >>
    /\ taskKeys = << >>
    /\ tasksToRun = << >>
    /\ generationStats = [success |-> 0, error |-> 0, skipped |-> 0]
    /\ indexEntries = << >>
    /\ activePromises = {}
    /\ taskQueueIndex = 0
    /\ processingFinished = FALSE
    /\ execs = << >>
    /\ finishers = << >>
    /\ emptySeen = 0
    /\ indexWrites = << >>

\* The fields #runNext, #processTask and their continuations read and write.
Sched ==
    [tasksToRun |-> tasksToRun, tasksState |-> tasksState, execs |-> execs,
     activePromises |-> activePromises, taskQueueIndex |-> taskQueueIndex,
     processingFinished |-> processingFinished, finishers |-> finishers,
     emptySeen |-> emptySeen, indexEntries |-> indexEntries,
     generationStats |-> generationStats]

SetSched(st) ==
    /\ tasksToRun' = st.tasksToRun
    /\ tasksState' = st.tasksState
    /\ execs' = st.execs
    /\ activePromises' = st.activePromises
    /\ taskQueueIndex' = st.taskQueueIndex
    /\ processingFinished' = st.processingFinished
    /\ finishers' = st.finishers
    /\ emptySeen' = st.emptySeen
    /\ indexEntries' = st.indexEntries
    /\ generationStats' = st.generationStats

\* ------------------------------------------------------------- #processTask
\* The first segment of #processTask(tasksToRun[i]): status generating, the
\* chunking loop, and the first generateObject call.
ProcessTaskStart(st, i) ==
    LET relativePath == st.tasksToRun[i]
        taskData == st.tasksState[relativePath]
        chunks == Chunks(taskData.bodyHTML)
    IN  [st EXCEPT
            !.tasksState[relativePath].status = "generating",
            !.execs[i] = [pc |-> "generating", chunk |-> 1, nChunks |-> Len(chunks),
                          calls |-> 1, result |-> "none", failedAt |-> ""]]

\* ----------------------------------------------------------------- #runNext
\* The timer setTimeout(this.#finishProcessing, 50) creates.
Timer == [pc |-> "timer", content |-> << >>, overwrite |-> FALSE]

\* Line 556-559.
QueueDrained(st) ==
    st.taskQueueIndex >= Len(st.tasksToRun) /\ st.activePromises = {}

\* Mutant of MaySignal: the one-shot guard is missing.
MaySignalUnguarded(st) == TRUE

\* Line 560: the one-shot guard.
MaySignal(st) == ~st.processingFinished

\* Line 566-569: the admission condition of the while loop.
CanAdmit(st) ==
    /\ st.taskQueueIndex < Len(st.tasksToRun)
    /\ Cardinality(st.activePromises) < options.maxConcurrent

\* Mutant of Admit: the tasks are taken from the end of the list.
AdmitFromTheEnd(st) ==
    LET i == Len(st.tasksToRun) - st.taskQueueIndex
        started == ProcessTaskStart([st EXCEPT !.taskQueueIndex = @ + 1], i)
    IN  [started EXCEPT !.activePromises = @ \cup { st.tasksToRun[i] }]

\* One iteration of the while loop: taskQueueIndex++, #processTask starts,
\* activePromises.set(relativePath, promise).
Admit(st) ==
    LET i == st.taskQueueIndex + 1
        started == ProcessTaskStart([st EXCEPT !.taskQueueIndex = i], i)
    IN  [started EXCEPT !.activePromises = @ \cup { st.tasksToRun[i] }]

\* Mutant of AdmitLoop: `if` in place of `while`.
AdmitOnce(st) == IF CanAdmit(st) THEN Admit(st) ELSE st

RECURSIVE AdmitLoop(_)
AdmitLoop(st) == IF CanAdmit(st) THEN AdmitLoop(Admit(st)) ELSE st

runNext(st) ==
    IF QueueDrained(st)
    THEN IF MaySignal(st)
         THEN [st EXCEPT !.emptySeen = @ + 1,
                         !.processingFinished = TRUE,
                         !.finishers = Append(@, Timer)]
         ELSE [st EXCEPT !.emptySeen = @ + 1]
    ELSE AdmitLoop(st)

\* Mutant of Continuation: .then in place of .finally, so that the callback
\* does not run after a rejected execution.
ContinuationOnSuccessOnly(st, i) ==
    IF st.execs[i].result = "error" THEN st
    ELSE runNext([st EXCEPT !.activePromises = @ \ { st.tasksToRun[i] }])

\* Mutant of Continuation: the callback forgets to call #runNext.
ContinuationWithoutRunNext(st, i) ==
    [st EXCEPT !.activePromises = @ \ { st.tasksToRun[i] }]

\* The .finally callback of line 571-574.  (The set binds st to its value, so
\* that it is computed once.)
Continuation(st, i) ==
    LET Callback(s) == runNext([s EXCEPT !.activePromises = @ \ { s.tasksToRun[i] }])
    IN  CHOOSE after \in { Callback(s) : s \in { st } } : TRUE

\* --------------------------------------------------- run: materialization
\* Mutant of ShouldSkip: existing artifacts are regenerated.
ShouldSkipNever(filename) == FALSE

\* Line 1043: the skip decision.
ShouldSkip(filename) ==
    ~options.shouldRegenerate /\ filename \in DOMAIN files

\* One iteration of the loop of line 1026-1049 over dataMap.entries().
\* m is [tasksState, taskKeys, tasksToRun, success].
MaterializeEntry(m, entry) ==
    IF Falsy(entry.bodyHTML) THEN m
    ELSE LET filename == generateFilenameFromUrl(entry.url, baseUrlPathSegments, RunClock)
             relativePath == filename
             task == [url |-> entry.url, bodyHTML |-> entry.bodyHTML,
                      filename |-> filename, status |-> "pending"]
             keyed == [m EXCEPT
                 !.tasksState =
                     [k \in DOMAIN m.tasksState \cup { relativePath } |->
                         IF k = relativePath THEN task ELSE m.tasksState[k]],
                 !.taskKeys =
                     IF relativePath \in DOMAIN m.tasksState THEN @
                     ELSE Append(@, relativePath)]
         IN  IF ShouldSkip(filename)
             THEN [keyed EXCEPT !.tasksState[relativePath].status = "success",
                                !.success = @ + 1]
             ELSE [keyed EXCEPT !.tasksToRun = Append(@, relativePath)]

RECURSIVE MaterializeFrom(_, _)
MaterializeFrom(i, m) ==
    IF i > Len(dataMap) THEN m
    ELSE MaterializeFrom(i + 1, MaterializeEntry(m, dataMap[i]))

Materialized ==
    MaterializeFrom(1, [tasksState |-> << >>, taskKeys |-> << >>,
                        tasksToRun |-> << >>, success |-> 0])

\* --------------------------------------------------------- #finishProcessing
\* The first segment of #finishProcessing, up to its first await: the state
\* of the call afterwards.
FinishProcessingBegin(entries, keys, ts) ==
    IF Len(entries) > 0
    THEN IF options.shouldRegenerate
         THEN [pc |-> "write", content |-> generateIndexContent(entries, keys, ts),
               overwrite |-> TRUE]
         ELSE [pc |-> "access", content |-> FormatEntries(entries),
               overwrite |-> FALSE]
    ELSE [pc |-> "done", content |-> << >>, overwrite |-> FALSE]

\* Line 705-706.
ContentToAppend(fileExists, newEntriesContent) ==
    (IF fileExists THEN << Sep >> ELSE << >>) \o newEntriesContent

\* The number of entries pushed by this run's executions among the tokens.
RunEntries(content) ==
    Cardinality({ k \in 1..Len(content) :
                    content[k].tok = "entry" /\ content[k].exec > 0 })

WriteRecord(by, content) == [by |-> by, n |-> RunEntries(content)]

\* Mutant of WriteIndex: appendFile replaced by writeFile.
WriteIndexTruncates(file, content, overwrite) == FileWith(content)

\* fs.writeFile / fs.appendFile on the index file.
WriteIndex(file, content, overwrite) ==
    IF overwrite THEN FileWith(content) ELSE FileWith(file.content \o content)

\* Lines 1022-1085 of run(), after `await fsp.mkdir` returned: the tasks are
\* materialized and, in the same segment, the run either finalizes at once,
\* exits, or starts the scheduler.
Materialize ==
    /\ pc = "prepare"
    /\ LET m == Materialized
           stats == [success |-> m.success, error |-> 0, skipped |-> 0]
           st == [Sched EXCEPT !.tasksToRun = m.tasksToRun,
                               !.tasksState = m.tasksState,
                               !.execs = [i \in 1..Len(m.tasksToRun) |-> PendingExec],
                               !.generationStats = stats,
                               !.indexEntries = << >>]
       IN  /\ taskKeys' = m.taskKeys
           /\ IF Len(m.tasksToRun) = 0 /\ m.success > 0
              THEN \* line 1051: this.#finishProcessing() is called directly
                   /\ SetSched([st EXCEPT !.finishers =
                          << FinishProcessingBegin(<< >>, m.taskKeys, m.tasksState) >>])
                   /\ pc' = "tasks"
                   /\ exitCode' = exitCode
              ELSE IF Len(m.tasksToRun) = 0
              THEN \* line 1056: process.exit(0)
                   /\ SetSched(st)
                   /\ pc' = "exit"
                   /\ exitCode' = 0
              ELSE \* line 1081-1084
                   /\ SetSched(runNext([st EXCEPT !.activePromises = {},
                                                  !.taskQueueIndex = 0,
                                                  !.processingFinished = FALSE]))
                   /\ pc' = "tasks"
                   /\ exitCode' = exitCode
    /\ UNCHANGED << argv, crawl, chunker, helper, dataMap, options, files, indexFile, initial, indexWrites >>

\* ------------------------------------------------- #processTask: the awaits
Running(i) == pc = "tasks" /\ i \in 1..Len(execs)

\* Mutant of Catch: the failure entry is not pushed.
CatchWithoutEntry(st, i, step) ==
    LET relativePath == st.tasksToRun[i]
    IN  Continuation(
            [st EXCEPT
                !.tasksState[relativePath].status = "error",
                !.generationStats.error = @ + 1,
                !.execs[i].pc = "done",
                !.execs[i].result = "error",
                !.execs[i].failedAt = step],
            i)

\* Mutant of Catch: the entry's path is pushed without the ".error" suffix.
CatchWithoutSuffix(st, i, step) ==
    LET relativePath == st.tasksToRun[i]
        taskData == st.tasksState[relativePath]
    IN  Continuation(
            [st EXCEPT
                !.tasksState[relativePath].status = "error",
                !.indexEntries = Append(@, Entry(taskData.filename, FALSE, "failed", i)),
                !.generationStats.error = @ + 1,
                !.execs[i].pc = "done",
                !.execs[i].result = "error",
                !.execs[i].failedAt = step],
            i)

\* The catch block of line 528-543, then the continuation.
Catch(st, i, step) ==
    LET relativePath == st.tasksToRun[i]
        taskData == st.tasksState[relativePath]
    IN  Continuation(
            [st EXCEPT
                !.tasksState[relativePath].status = "error",
                !.indexEntries = Append(@, Entry(taskData.filename, TRUE, "failed", i)),
                !.generationStats.error = @ + 1,
                !.execs[i].pc = "done",
                !.execs[i].result = "error",
                !.execs[i].failedAt = step],
            i)

\* Line 515-527 after writeFile resolved, then the continuation.
Saved(st, i) ==
    LET relativePath == st.tasksToRun[i]
        taskData == st.tasksState[relativePath]
    IN  Continuation(
            [st EXCEPT
                !.tasksState[relativePath].status = "success",
                !.indexEntries = Append(@, Entry(taskData.filename, FALSE, "generated", i)),
                !.generationStats.success = @ + 1,
                !.execs[i].pc = "done",
                !.execs[i].result = "success"],
            i)

\* Mutant of AfterChunk: every chunk is sent a second time before the next.
AfterChunkResending(st, i) ==
    LET relativePath == st.tasksToRun[i]
        e == st.execs[i]
    IN  IF e.calls < 2 * e.chunk
        THEN [st EXCEPT !.execs[i].calls = @ + 1]
        ELSE IF e.chunk < e.nChunks
        THEN [st EXCEPT !.execs[i].chunk = @ + 1, !.execs[i].calls = @ + 1]
        ELSE [st EXCEPT !.tasksState[relativePath].status = "saving",
                        !.execs[i].pc = "saving"]

\* generateObject resolved for the current chunk: the next chunk is sent, or
\* (line 511-514) the task turns to saving and writeFile is called.
AfterChunk(st, i) ==
    LET relativePath == st.tasksToRun[i]
        e == st.execs[i]
    IN  IF e.chunk < e.nChunks
        THEN [st EXCEPT !.execs[i].chunk = @ + 1, !.execs[i].calls = @ + 1]
        ELSE [st EXCEPT !.tasksState[relativePath].status = "saving",
                        !.execs[i].pc = "saving"]

GenerateReturns(i) ==
    /\ Running(i)
    /\ execs[i].pc = "generating"
    /\ \E next \in { AfterChunk(Sched, i) } : SetSched(next)
    /\ UNCHANGED << argv, crawl, chunker, helper, dataMap, options, files, indexFile, initial, pc, exitCode,
                    taskKeys, indexWrites >>

\* Mutant of GenerateThrows: what was generated so far is written to the
\* target path before the error is handled.
GenerateThrowsAfterWrite(i) ==
    /\ Running(i)
    /\ execs[i].pc = "generating"
    /\ LET taskData == tasksState[tasksToRun[i]]
       IN  files' = [f \in DOMAIN files \cup { taskData.filename } |->
                        IF f = taskData.filename THEN NewContent(taskData.url)
                        ELSE files[f]]
    /\ \E next \in { Catch(Sched, i, "generate") } : SetSched(next)
    /\ UNCHANGED << argv, crawl, chunker, helper, dataMap, options, indexFile, initial,
                    pc, exitCode, taskKeys, indexWrites >>

GenerateThrows(i) ==
    /\ Running(i)
    /\ execs[i].pc = "generating"
    /\ \E next \in { Catch(Sched, i, "generate") } : SetSched(next)
    /\ UNCHANGED << argv, crawl, chunker, helper, dataMap, options, files, indexFile, initial, pc, exitCode,
                    taskKeys, indexWrites >>

\* fsp.writeFile(taskData.filePath, combinedMarkdown) wrote the file and
\* resolved.
WriteReturns(i) ==
    /\ Running(i)
    /\ execs[i].pc = "saving"
    /\ LET relativePath == tasksToRun[i]
           taskData == tasksState[relativePath]
       IN  files' = [f \in DOMAIN files \cup { taskData.filename } |->
                        IF f = taskData.filename THEN NewContent(taskData.url)
                        ELSE files[f]]
    /\ \E next \in { Saved(Sched, i) } : SetSched(next)
    /\ UNCHANGED << argv, crawl, chunker, helper, dataMap, options, indexFile, initial, pc, exitCode, taskKeys,
                    indexWrites >>

WriteThrows(i) ==
    /\ Running(i)
    /\ execs[i].pc = "saving"
    /\ \E next \in { Catch(Sched, i, "write") } : SetSched(next)
    /\ UNCHANGED << argv, crawl, chunker, helper, dataMap, options, files, indexFile, initial, pc, exitCode,
                    taskKeys, indexWrites >>

\* ------------------------------------------- #finishProcessing: the awaits
Finishing(j) == pc = "tasks" /\ j \in 1..Len(finishers)

\* The 50 ms timer fires: #finishProcessing runs to its first await.
TimerFires(j) ==
    /\ Finishing(j)
    /\ finishers[j].pc = "timer"
    /\ finishers' = [finishers EXCEPT
                        ![j] = FinishProcessingBegin(indexEntries, taskKeys, tasksState)]
    /\ UNCHANGED << argv, crawl, chunker, helper, dataMap, options, files, indexFile, initial, pc, exitCode,
                    tasksState, taskKeys, tasksToRun, generationStats, indexEntries,
                    activePromises, taskQueueIndex, processingFinished, execs,
                    emptySeen, indexWrites >>

\* fsp.access(indexFilePath) settled: appendFile is called.
AccessSettles(j) ==
    /\ Finishing(j)
    /\ finishers[j].pc = "access"
    /\ finishers' = [finishers EXCEPT
                        ![j].pc = "write",
                        ![j].content = ContentToAppend(indexFile.exists, @)]
    /\ UNCHANGED << argv, crawl, chunker, helper, dataMap, options, files, indexFile, initial, pc, exitCode,
                    tasksState, taskKeys, tasksToRun, generationStats, indexEntries,
                    activePromises, taskQueueIndex, processingFinished, execs,
                    emptySeen, indexWrites >>

\* The file system carries out the pending writeFile / appendFile; the
\* awaiting code has not resumed yet.
IndexWritePerformed(j) ==
    /\ Finishing(j)
    /\ finishers[j].pc = "write"
    /\ indexFile' = WriteIndex(indexFile, finishers[j].content, finishers[j].overwrite)
    /\ indexWrites' = Append(indexWrites, WriteRecord("finish", finishers[j].content))
    /\ finishers' = [finishers EXCEPT ![j].pc = "written"]
    /\ UNCHANGED << argv, crawl, chunker, helper, dataMap, options, files, initial, pc, exitCode,
                    tasksState, taskKeys, tasksToRun, generationStats, indexEntries,
                    activePromises, taskQueueIndex, processingFinished, execs,
                    emptySeen >>

\* The write is rejected (line 677 / 717): the error is logged and
\* #finishProcessing goes on to its summary.
IndexWriteFails(j) ==
    /\ Finishing(j)
    /\ finishers[j].pc = "write"
    /\ finishers' = [finishers EXCEPT ![j].pc = "done"]
    /\ UNCHANGED << argv, crawl, chunker, helper, dataMap, options, files, indexFile, initial, pc, exitCode,
                    tasksState, taskKeys, tasksToRun, generationStats, indexEntries,
                    activePromises, taskQueueIndex, processingFinished, execs,
                    emptySeen, indexWrites >>

\* The await on the write resolves: the success message and p.outro.
FinishResumes(j) ==
    /\ Finishing(j)
    /\ finishers[j].pc = "written"
    /\ finishers' = [finishers EXCEPT ![j].pc = "done"]
    /\ UNCHANGED << argv, crawl, chunker, helper, dataMap, options, files, indexFile, initial, pc, exitCode,
                    tasksState, taskKeys, tasksToRun, generationStats, indexEntries,
                    activePromises, taskQueueIndex, processingFinished, execs,
                    emptySeen, indexWrites >>

\* ------------------------------------------------------------ process exit
InFlight(i) == execs[i].pc \in { "generating", "saving" }

\* Nothing is pending on the event loop (the spinner interval is cleared by
\* #finishProcessing): node exits with status 0.
EventLoopEmpty ==
    /\ \A i \in 1..Len(execs) : ~InFlight(i)
    /\ \A j \in 1..Len(finishers) : finishers[j].pc = "done"
    /\ finishers # << >>

NaturalExit ==
    /\ pc = "tasks"
    /\ EventLoopEmpty
    /\ pc' = "exit"
    /\ exitCode' = 0
    /\ UNCHANGED << argv, crawl, chunker, helper, dataMap, options, files, indexFile, initial,
                    tasksState, taskKeys, tasksToRun, generationStats, indexEntries,
                    activePromises, taskQueueIndex, processingFinished, execs,
                    finishers, emptySeen, indexWrites >>

\* The SIGINT handler of line 742-812 (synchronous): the index is written
\* with what has accumulated, then process.exit(130).
\* Line 750: generator.paths.siteDocsDir is set (line 1002) before mkdir.
SiteDocsDirSet == pc \in { "prepare", "tasks" }
SigintRegenerates == SiteDocsDirSet /\ options.shouldRegenerate
\* Mutant of SigintAppends: the handler has no append branch.
SigintNeverAppends == FALSE
SigintAppends ==
    SiteDocsDirSet /\ ~options.shouldRegenerate /\ Len(indexEntries) > 0

Sigint ==
    /\ pc # "exit"
    /\ IF SigintRegenerates
       THEN LET indexContent == generateIndexContent(indexEntries, taskKeys, tasksState)
            IN  /\ indexFile' = WriteIndex(indexFile, indexContent, TRUE)
                /\ indexWrites' = Append(indexWrites, WriteRecord("sigint", indexContent))
       ELSE IF SigintAppends
       THEN LET contentToAppend ==
                    ContentToAppend(indexFile.exists, FormatEntries(indexEntries))
            IN  /\ indexFile' = WriteIndex(indexFile, contentToAppend, FALSE)
                /\ indexWrites' = Append(indexWrites, WriteRecord("sigint", contentToAppend))
       ELSE UNCHANGED << indexFile, indexWrites >>
    /\ pc' = "exit"
    /\ exitCode' = 130
    /\ UNCHANGED << argv, crawl, chunker, helper, dataMap, options, files, initial,
                    tasksState, taskKeys, tasksToRun, generationStats, indexEntries,
                    activePromises, taskQueueIndex, processingFinished, execs,
                    finishers, emptySeen >>

Next ==
    \/ Materialize
    \/ \E i \in DOMAIN execs : GenerateReturns(i)
    \/ \E i \in DOMAIN execs : GenerateThrows(i)
    \/ \E i \in DOMAIN execs : WriteReturns(i)
    \/ \E i \in DOMAIN execs : WriteThrows(i)
    \/ \E j \in DOMAIN finishers : TimerFires(j)
    \/ \E j \in DOMAIN finishers : AccessSettles(j)
    \/ \E j \in DOMAIN finishers : IndexWritePerformed(j)
    \/ \E j \in DOMAIN finishers : IndexWriteFails(j)
    \/ \E j \in DOMAIN finishers : FinishResumes(j)
    \/ NaturalExit
    \/ Sigint

Spec == Init /\ [][Next]_vars

\* The run on a clean output directory, with the assumption that every
\* generateObject call and every writeFile of a task eventually settles.
LiveInit == Init /\ files = << >> /\ indexFile = NoFile

\* Some pending call of some task settles.  Every settlement takes one of the
\* finitely many steps of a task, so under weak fairness each pending call
\* settles.
CallSettles ==
    \E i \in DOMAIN execs :
        GenerateReturns(i) \/ GenerateThrows(i) \/ WriteReturns(i) \/ WriteThrows(i)

LiveSpec == LiveInit /\ [][Next]_vars /\ WF_vars(CallSettles)

\* ---------------------------------------------- run(): reading the options
\* The characters --maxConcurrent strings are made of.
RawAlphabet == { "0", "2", "5", ".", "-" }
RawStrings == UNION { [1..n -> RawAlphabet] : n \in 0..MaxRawLen }

IsDigit(c) == c \in { "0", "2", "5" }
DigitValue(c) ==
    CASE c = "0" -> 0
      [] c = "2" -> 2
      [] c = "5" -> 5

RECURSIVE DigitPrefix(_)
\* The longest prefix of s made of digits.
DigitPrefix(s) ==
    IF s # << >> /\ IsDigit(s[1]) THEN << s[1] >> \o DigitPrefix(Tail(s)) ELSE << >>

RECURSIVE DecimalValue(_)
DecimalValue(digits) ==
    IF digits = << >> THEN 0
    ELSE 10 * DecimalValue(SubSeq(digits, 1, Len(digits) - 1))
         + DigitValue(digits[Len(digits)])

\* A JavaScript number: NaN, or sign, integer part, and whether the fraction
\* is not zero.
Number(neg, int, frac) == [nan |-> FALSE, neg |-> neg, int |-> int, frac |-> frac]
NaN == [nan |-> TRUE, neg |-> FALSE, int |-> 0, frac |-> FALSE]

\* parseInt(s, 10): an optional sign, then the longest run of digits; what
\* follows the digits is ignored; NaN when there is no digit.
parseInt(s) ==
    LET negative == s # << >> /\ s[1] = "-"
        rest == IF negative THEN Tail(s) ELSE s
        digits == DigitPrefix(rest)
    IN  IF digits = << >> THEN NaN
        ELSE Number(negative, DecimalValue(digits), FALSE)

\* Number(s), the unary plus of the prompt's validator: the whole string
\* must be a decimal literal.  The empty string is 0.
ToNumber(s) ==
    LET negative == s # << >> /\ s[1] = "-"
        rest == IF negative THEN Tail(s) ELSE s
        intDigits == DigitPrefix(rest)
        afterInt == SubSeq(rest, Len(intDigits) + 1, Len(rest))
        hasDot == afterInt # << >> /\ afterInt[1] = "."
        fracDigits == IF hasDot THEN DigitPrefix(Tail(afterInt)) ELSE << >>
        consumed == Len(intDigits) + (IF hasDot THEN 1 + Len(fracDigits) ELSE 0)
    IN  IF s = << >> THEN Number(FALSE, 0, FALSE)
        ELSE IF consumed # Len(rest) \/ (intDigits = << >> /\ fracDigits = << >>)
        THEN NaN
        ELSE Number(negative, DecimalValue(intDigits), DecimalValue(fracDigits) # 0)

\* Number.isInteger(n)
IsInteger(n) == ~n.nan /\ ~n.frac
\* n > 0
IsPositive(n) == ~n.nan /\ ~n.neg /\ (n.int > 0 \/ n.frac)

\* Line 921-924: v && Number.isInteger(+v) && +v > 0.
PromptValidates(v) ==
    v # << >> /\ IsInteger(ToNumber(v)) /\ IsPositive(ToNumber(v))

\* Line 950-953: the test that leads to process.exit(1).
IsInvalidMaxConcurrent(n) == ~IsInteger(n) \/ ~IsPositive(n)

\* The exclusion lists explored (options.excludePaths after the split of
\* line 941-944): none, "/admin", and "/d/", which names the start path.
ExcludeChoices ==
    { << >>, << << "/", "a", "d", "m", "i", "n" >> >>, << << "/", "d", "/" >> >> }

\* viaCli: --baseUrl was given and valid, so the prompts are skipped.
ArgvChoices ==
    { a \in [viaCli : BOOLEAN, maxConcurrent : RawStrings,
             excludePaths : ExcludeChoices, shouldRegenerate : BOOLEAN] :
        a.viaCli \/ PromptValidates(a.maxConcurrent) }

\* ------------------------------------------------------------ #crawlWebsite
\* A URL string: origin, path segments, the number of "/" that end the path,
\* and whether a "#fragment" follows.
Link(origin, segs, slashes, hash) ==
    [origin |-> origin, segs |-> segs, slashes |-> slashes, hash |-> hash]

\* new URL(u): the pathname of a URL without path segments is at least "/".
ParsedSlashes(u) == IF u.segs = << >> THEN Max(1, u.slashes) ELSE u.slashes

\* #normalizeUrl: the fragment is dropped and, if the string then ends with
\* "/", its last character.
normalizeUrl(u) ==
    [u EXCEPT !.hash = FALSE,
              !.slashes = IF ParsedSlashes(u) > 0 THEN ParsedSlashes(u) - 1 ELSE 0]

RECURSIVE Slashes(_)
Slashes(n) == IF n = 0 THEN << >> ELSE << "/" >> \o Slashes(n - 1)

\* new URL(u).pathname
PathName(u) ==
    IF u.segs = << >> THEN Slashes(ParsedSlashes(u))
    ELSE << "/" >> \o Flatten(u.segs, << "/" >>) \o Slashes(u.slashes)

RECURSIVE StripLeadingSlashes(_)
StripLeadingSlashes(s) ==
    IF s # << >> /\ s[1] = "/" THEN StripLeadingSlashes(Tail(s)) ELSE s

RECURSIVE StripTrailingSlashes(_)
StripTrailingSlashes(s) ==
    IF s # << >> /\ s[Len(s)] = "/"
    THEN StripTrailingSlashes(SubSeq(s, 1, Len(s) - 1)) ELSE s

\* ex.replace(/^\/+|\/+$/g, "").trim()
Clean(ex) == StripTrailingSlashes(StripLeadingSlashes(ex))

\* s occurs in t as a run of consecutive characters.
Contains(t, s) ==
    \E k \in 0..(Len(t) - Len(s)) : SubSeq(t, k + 1, k + Len(s)) = s

\* Mutant of IsExcluded: segment.includes(clean) instead of
\* segments.includes(clean).
IsExcludedBySubstring(segments, excludePaths) ==
    \E k \in DOMAIN excludePaths :
        /\ Clean(excludePaths[k]) # << >>
        /\ \E j \in DOMAIN segments : Contains(segments[j], Clean(excludePaths[k]))

\* excludePaths.some(ex => clean && segments.includes(clean))
IsExcluded(segments, excludePaths) ==
    \E k \in DOMAIN excludePaths :
        /\ Clean(excludePaths[k]) # << >>
        /\ \E j \in DOMAIN segments : segments[j] = Clean(excludePaths[k])

\* options.baseUrl: https://site/d
BaseUrl == Link("https://site", << << "d" >> >>, 0, FALSE)

\* originUrl.pathname with one trailing "/" removed, "/" itself kept.
BasePath(normalizedBaseUrl) ==
    LET pathname == PathName(normalizedBaseUrl)
    IN  IF pathname = << "/" >> THEN pathname
        ELSE IF pathname[Len(pathname)] = "/"
             THEN SubSeq(pathname, 1, Len(pathname) - 1)
             ELSE pathname

\* The site crawled: for each page (keyed by normalized URL) its body and the
\* a[href] targets in document order.  Any URL not listed loads a page
\* without links.
Web ==
    << [url |-> Link("https://site", << << "d" >> >>, 0, FALSE),
        bodyHTML |-> << "x", "x" >>,
        links |-> << Link("https://site", << << "d" >>, << "a" >> >>, 0, FALSE),
                     Link("https://site", << << "d" >>, << "a" >> >>, 1, FALSE),
                     Link("https://site", << << "d" >> >>, 0, TRUE),
                     Link("https://site", << << "d" >>, << "a", "d", "m", "i", "n" >>,
                                             << "x" >> >>, 0, FALSE),
                     Link("https://site", << << "x" >> >>, 0, FALSE),
                     Link("https://other", << << "d" >>, << "a" >> >>, 0, FALSE),
                     Link("https://site", << << "d", "x" >> >>, 0, FALSE) >>],
       [url |-> Link("https://site", << << "d" >>, << "a" >> >>, 0, FALSE),
        bodyHTML |-> << "y" >>,
        links |-> << Link("https://site", << << "d" >>,
                                             << "a", "d", "m", "i", "n", "s" >> >>, 0, FALSE),
                     Link("https://site", << << "d" >> >>, 1, FALSE),
                     Link("https://site", << << "d" >>, << "b" >> >>, 0, FALSE) >>] >>

PageAt(url) ==
    IF \E k \in DOMAIN Web : Web[k].url = url
    THEN Web[CHOOSE k \in DOMAIN Web : Web[k].url = url]
    ELSE [url |-> url, bodyHTML |-> << "z" >>, links |-> << >>]

Keys(collectedData) == { collectedData[k].url : k \in DOMAIN collectedData }

\* Mutant of ShouldEnqueue: the origin is not compared.
ShouldEnqueueAnyOrigin(c, normLink, siteOrigin, basePath, excludePaths) ==
    /\ IsPrefix(basePath, PathName(normLink))
    /\ ~IsExcluded(normLink.segs, excludePaths)
    /\ normLink \notin Keys(c.collectedData)
    /\ normLink \notin Range(c.queue)
    /\ Len(c.queue) + Len(c.collectedData) + 1 < Len(c.collectedData) + QueueCap

\* Mutant of HasRoom: the literal is one less.
HasRoomForOneLess(c) ==
    Len(c.queue) + Len(c.collectedData) + 1 < Len(c.collectedData) + QueueCap - 1

\* Line 288: the last conjunct of the condition.
HasRoom(c) ==
    Len(c.queue) + Len(c.collectedData) + 1 < Len(c.collectedData) + QueueCap

\* Line 283-287: the conjuncts of the condition before the last.
IsNewInScope(c, normLink, siteOrigin, basePath, excludePaths) ==
    /\ normLink.origin = siteOrigin
    /\ IsPrefix(basePath, PathName(normLink))
    /\ ~IsExcluded(normLink.segs, excludePaths)
    /\ normLink \notin Keys(c.collectedData)
    /\ normLink \notin Range(c.queue)

\* The condition of line 282-289 under which a link is queued.
ShouldEnqueue(c, normLink, siteOrigin, basePath, excludePaths) ==
    /\ IsNewInScope(c, normLink, siteOrigin, basePath, excludePaths)
    /\ HasRoom(c)

\* The body of the for loop of line 272-293 for one link.  dropped (not in
\* the source) records the links that failed only the last conjunct of the
\* condition, with the size of the queue at that moment.
ProcessLink(c, link, excludePaths) ==
    LET normLink == normalizeUrl(link)
        normalizedBaseUrl == normalizeUrl(BaseUrl)
    IN  IF ShouldEnqueue(c, normLink, normalizedBaseUrl.origin,
                         BasePath(normalizedBaseUrl), excludePaths)
        THEN [c EXCEPT !.queue = Append(@, normLink)]
        ELSE IF IsNewInScope(c, normLink, normalizedBaseUrl.origin,
                             BasePath(normalizedBaseUrl), excludePaths)
        THEN [c EXCEPT !.dropped =
                  @ \cup { [url |-> normLink, queued |-> Len(c.queue)] }]
        ELSE c

RECURSIVE ProcessLinks(_, _, _)
\* The for loop of line 272-293 over the links of the page just loaded.
ProcessLinks(c, links, excludePaths) ==
    IF links = << >> THEN c
    ELSE CHOOSE r \in { ProcessLinks(next, Tail(links), excludePaths) :
                            next \in { ProcessLink(c, links[1], excludePaths) } } : TRUE

\* Mutant of MapSet: a page that failed to load is not recorded.
MapSetUnlessNull(collectedData, url, bodyHTML) ==
    IF bodyHTML = << "null" >> THEN collectedData
    ELSE IF url \in Keys(collectedData)
    THEN [k \in DOMAIN collectedData |->
             IF collectedData[k].url = url
             THEN [url |-> url, bodyHTML |-> bodyHTML] ELSE collectedData[k]]
    ELSE Append(collectedData, [url |-> url, bodyHTML |-> bodyHTML])

\* collectedData.set(url, bodyHTML): a Map keeps a key's first position.
MapSet(collectedData, url, bodyHTML) ==
    IF url \in Keys(collectedData)
    THEN [k \in DOMAIN collectedData |->
             IF collectedData[k].url = url
             THEN [url |-> url, bodyHTML |-> bodyHTML] ELSE collectedData[k]]
    ELSE Append(collectedData, [url |-> url, bodyHTML |-> bodyHTML])

\* Mutant of LoopHead: the test of line 258 is left out; with an empty queue
\* the loop goes to the page it has just left.
LoopHeadNeverEnds(c) ==
    LET fresh == { i \in DOMAIN c.queue : c.queue[i] \notin Keys(c.collectedData) }
    IN  IF fresh = {} /\ c.fetches = << >>
        THEN [c EXCEPT !.pc = "closing", !.currentUrl = NULL]
        ELSE IF fresh = {} THEN [c EXCEPT !.queue = << >>, !.pc = "goto"]
        ELSE LET k == CHOOSE i \in fresh : \A j \in fresh : i <= j
             IN  [c EXCEPT !.queue = SubSeq(@, k + 1, Len(@)), !.pc = "goto",
                           !.currentUrl = c.queue[k],
                           !.fetches = Append(@, c.queue[k])]

\* Mutant of LoopHead: the test of line 261 is left out.
LoopHeadWithoutSkip(c) ==
    IF c.queue = << >> THEN [c EXCEPT !.pc = "closing", !.currentUrl = NULL]
    ELSE [c EXCEPT !.queue = Tail(@), !.pc = "goto", !.currentUrl = Head(c.queue),
                   !.fetches = Append(@, Head(c.queue))]

RECURSIVE LoopHead(_)
\* The head of the while loop (line 258-261): the next URL is taken from the
\* queue and page.goto is called, or the loop ends and browser.close is.
LoopHead(c) ==
    IF c.queue = << >> THEN [c EXCEPT !.pc = "closing", !.currentUrl = NULL]
    ELSE LET currentUrl == Head(c.queue)
             dequeued == [c EXCEPT !.queue = Tail(@)]
         IN  IF currentUrl \in Keys(c.collectedData) THEN LoopHead(dequeued)
             ELSE [dequeued EXCEPT !.pc = "goto", !.currentUrl = currentUrl,
                                   !.fetches = Append(@, currentUrl)]

\* Mutant of IsStartExcluded: the start URL is not tested.
StartNeverExcluded(excludePaths) == FALSE

\* Line 251-254.
IsStartExcluded(excludePaths) ==
    IsExcluded(normalizeUrl(BaseUrl).segs, excludePaths)

\* #crawlWebsite when playwright's launch and newPage have resolved: the seed
\* (line 255) and the first loop head.
CrawlStart(excludePaths) ==
    LoopHead([pc |-> "launch",
              queue |-> IF IsStartExcluded(excludePaths) THEN << >>
                        ELSE << normalizeUrl(BaseUrl) >>,
              collectedData |-> << >>, currentUrl |-> NULL, fetches |-> << >>,
                 dropped |-> {}])

\* The state run() starts in: the SIGINT handler is installed, the options
\* are being read.
CrawlInit ==
    /\ argv \in ArgvChoices
    /\ crawl = NoCrawl
    /\ chunker = NoChunker
    /\ helper = NoHelper
    /\ dataMap = << >>
    /\ options = << >>
    /\ files = << >>
    /\ indexFile = NoFile
    /\ initial = [files |-> << >>, indexFile |-> NoFile]
    /\ pc = "options"
    /\ exitCode = -1
    /\ tasksState = << >>
    /\ taskKeys = << >>
    /\ tasksToRun = << >>
    /\ generationStats = [success |-> 0, error |-> 0, skipped |-> 0]
    /\ indexEntries = << >>
    /\ activePromises = {}
    /\ taskQueueIndex = 0
    /\ processingFinished = FALSE
    /\ execs = << >>
    /\ finishers = << >>
    /\ emptySeen = 0
    /\ indexWrites = << >>

\* What the steps of run() before materialization leave alone.
CrawlFrame ==
    UNCHANGED << argv, chunker, helper, files, indexFile, initial, tasksState, taskKeys,
                 tasksToRun, generationStats, indexEntries, activePromises,
                 taskQueueIndex, processingFinished, execs, finishers, emptySeen,
                 indexWrites >>

\* Line 937-947.  maxConcurrent is the integer parseInt gave, or NaN.
ParsedOptions ==
    LET n == parseInt(argv.maxConcurrent)
    IN  [shouldRegenerate |-> argv.shouldRegenerate,
         maxConcurrent |-> IF n.nan THEN NaN
                           ELSE IF n.neg THEN 0 - n.int ELSE n.int]

\* Line 949-958: the parsed value is rejected, process.exit(1).
OptionsInvalid ==
    /\ pc = "options"
    /\ IsInvalidMaxConcurrent(parseInt(argv.maxConcurrent))
    /\ options' = ParsedOptions
    /\ pc' = "exit"
    /\ exitCode' = 1
    /\ UNCHANGED << crawl, dataMap >>
    /\ CrawlFrame

\* Line 949-967 and #crawlWebsite to its first await: the options pass and
\* the crawl is started.
OptionsValid ==
    /\ pc = "options"
    /\ ~IsInvalidMaxConcurrent(parseInt(argv.maxConcurrent))
    /\ options' = ParsedOptions
    /\ pc' = "crawl"
    /\ crawl' = [pc |-> "launch", queue |-> << >>, collectedData |-> << >>,
                 currentUrl |-> NULL, fetches |-> << >>,
                 dropped |-> {}]
    /\ UNCHANGED << exitCode, dataMap >>
    /\ CrawlFrame

\* Line 928-931: the user cancels a prompt, process.exit(0).
PromptCancelled ==
    /\ pc = "options"
    /\ ~argv.viaCli
    /\ pc' = "exit"
    /\ exitCode' = 0
    /\ UNCHANGED << crawl, dataMap, options >>
    /\ CrawlFrame

Crawling(at) == pc = "crawl" /\ crawl.pc = at

BrowserLaunched ==
    /\ Crawling("launch")
    /\ crawl' = CrawlStart(argv.excludePaths)
    /\ UNCHANGED << pc, exitCode, dataMap, options >>
    /\ CrawlFrame

\* page.goto and the two page.evaluate calls resolved (line 265-293), then
\* line 303 and the next loop head.
PageLoaded ==
    /\ Crawling("goto")
    /\ \E page \in { PageAt(crawl.currentUrl) } :
       \E linked \in { ProcessLinks(crawl, page.links, argv.excludePaths) } :
       \E recorded \in { [linked EXCEPT
                 !.collectedData = MapSet(@, crawl.currentUrl, page.bodyHTML)] } :
       \E next \in { LoopHead(recorded) } :
           crawl' = next
    /\ UNCHANGED << pc, exitCode, dataMap, options >>
    /\ CrawlFrame

\* page.goto rejected (timeout, network error): the catch of line 296-302,
\* then line 303 with bodyHTML null and the next loop head.
PageFails ==
    /\ Crawling("goto")
    /\ \E recorded \in { [crawl EXCEPT
                 !.collectedData = MapSet(@, crawl.currentUrl, NULL)] } :
       \E next \in { LoopHead(recorded) } :
           crawl' = next
    /\ UNCHANGED << pc, exitCode, dataMap, options >>
    /\ CrawlFrame

\* The import, the launch or browser.close rejects: #crawlWebsite rejects and
\* run() exits with status 1 (line 976-980).
CrawlThrows ==
    /\ Crawling("launch") \/ Crawling("closing")
    /\ crawl' = [crawl EXCEPT !.pc = "threw"]
    /\ pc' = "exit"
    /\ exitCode' = 1
    /\ UNCHANGED << dataMap, options >>
    /\ CrawlFrame

\* browser.close resolved and #crawlWebsite returned (line 304-305); run()
\* goes on from line 972 to process.exit(0) (line 981-984) or to the pending
\* mkdir of line 1004.
CrawlReturns ==
    /\ Crawling("closing")
    /\ crawl' = [crawl EXCEPT !.pc = "returned"]
    /\ dataMap' = crawl.collectedData
    /\ IF Len(crawl.collectedData) = 0
       THEN pc' = "exit" /\ exitCode' = 0
       ELSE pc' = "prepare" /\ exitCode' = exitCode
    /\ UNCHANGED options
    /\ CrawlFrame

CrawlNext ==
    \/ OptionsInvalid
    \/ OptionsValid
    \/ PromptCancelled
    \/ BrowserLaunched
    \/ PageLoaded
    \/ PageFails
    \/ CrawlThrows
    \/ CrawlReturns
    \/ Materialize
    \/ Sigint

CrawlSpec == CrawlInit /\ [][CrawlNext]_vars

\* The crawl when every page.goto settles (it resolves or rejects, at the
\* latest by the timeout of line 266) and browser.close settles.
CrawlLiveSpec ==
    /\ CrawlInit
    /\ [][CrawlNext]_vars
    /\ WF_vars(PageFails \/ PageLoaded)
    /\ WF_vars(CrawlReturns \/ CrawlThrows)

\* ------------------------------------------- the chunking loop, stepwise
\* The characters page bodies are made of ("!" and "?" behave as ".").
ChunkAlphabet == { "x", ".", " ", "\n" }
MarkChars == ChunkAlphabet \ { "x" }

ShortBodies == UNION { [1..n -> ChunkAlphabet] : n \in 0..MaxBodyLen }

\* Scenario C of the spec (250000 characters, MAX_CHUNK_SIZE 120000), scaled:
\* two thresholds and a remainder.
ScenarioLen == 2 * MAX_CHUNK_SIZE + 3
ScenarioBodies ==
    UNION { { [i \in 1..ScenarioLen |-> IF i \in P THEN f[i] ELSE "x"] :
                f \in [P -> MarkChars] } :
            P \in { Q \in SUBSET (1..ScenarioLen) : Cardinality(Q) <= MaxMarks } }

Bodies == ShortBodies \cup ScenarioBodies

\* #processTask called on a task with body bodyHTML, before line 447.
ChunkerAt(bodyHTML) ==
    [bodyHTML |-> bodyHTML, currentIndex |-> 0, chunks |-> << >>, cuts |-> << >>,
     pc |-> "start"]

ChunkInit ==
    /\ argv = NoArgv
    /\ crawl = NoCrawl
    /\ chunker \in { ChunkerAt(b) : b \in Bodies }
    /\ helper = NoHelper
    /\ dataMap = << >>
    /\ options = << >>
    /\ files = << >>
    /\ indexFile = NoFile
    /\ initial = [files |-> << >>, indexFile |-> NoFile]
    /\ pc = "tasks"
    /\ exitCode = -1
    /\ tasksState = << >>
    /\ taskKeys = << >>
    /\ tasksToRun = << >>
    /\ generationStats = [success |-> 0, error |-> 0, skipped |-> 0]
    /\ indexEntries = << >>
    /\ activePromises = {}
    /\ taskQueueIndex = 0
    /\ processingFinished = FALSE
    /\ execs = << >>
    /\ finishers = << >>
    /\ emptySeen = 0
    /\ indexWrites = << >>

\* Mutant of ChunkIteration: the cursor steps back over the last character of
\* the chunk (overlap taken in the source instead of in the prompt).
ChunkIterationOverlapping(c) ==
    LET end == ChunkEnd(c.bodyHTML, c.currentIndex)
    IN  [c EXCEPT !.chunks = Append(@, Substring(c.bodyHTML, c.currentIndex, end)),
                  !.cuts = Append(@, [from |-> c.currentIndex, to |-> end]),
                  !.currentIndex = IF end < Len(c.bodyHTML)
                                   THEN Max(c.currentIndex + 1, end - 1) ELSE end]

\* One iteration of the while loop of line 454-472.  cuts (not in the source)
\* records the values of currentIndex and end at each chunks.push.
ChunkIteration(c) ==
    LET end == ChunkEnd(c.bodyHTML, c.currentIndex)
    IN  [c EXCEPT !.chunks = Append(@, Substring(c.bodyHTML, c.currentIndex, end)),
                  !.cuts = Append(@, [from |-> c.currentIndex, to |-> end]),
                  !.currentIndex = end]

ChunkFrame ==
    UNCHANGED << argv, crawl, helper, dataMap, options, files, indexFile, initial,
                 pc, exitCode, tasksState, taskKeys, tasksToRun, generationStats,
                 indexEntries, activePromises, taskQueueIndex, processingFinished,
                 execs, finishers, emptySeen, indexWrites >>

\* Line 447: needsChunking.
ChunkingStarts ==
    /\ chunker # NoChunker
    /\ chunker.pc = "start"
    /\ Len(chunker.bodyHTML) > MAX_CHUNK_SIZE
    /\ chunker' = [chunker EXCEPT !.pc = "loop"]
    /\ ChunkFrame

\* Line 499-501: the body is sent whole.
SingleChunk ==
    /\ chunker # NoChunker
    /\ chunker.pc = "start"
    /\ ~(Len(chunker.bodyHTML) > MAX_CHUNK_SIZE)
    /\ chunker' = [chunker EXCEPT !.pc = "single", !.chunks = << chunker.bodyHTML >>]
    /\ ChunkFrame

ChunkIterates ==
    /\ chunker # NoChunker
    /\ chunker.pc = "loop"
    /\ chunker.currentIndex < Len(chunker.bodyHTML)
    /\ chunker' = ChunkIteration(chunker)
    /\ ChunkFrame

\* The while condition fails: the loop is left.
ChunkingEnds ==
    /\ chunker # NoChunker
    /\ chunker.pc = "loop"
    /\ ~(chunker.currentIndex < Len(chunker.bodyHTML))
    /\ chunker' = [chunker EXCEPT !.pc = "done"]
    /\ ChunkFrame

ChunkNext ==
    \/ ChunkingStarts
    \/ SingleChunk
    \/ ChunkIterates
    \/ ChunkingEnds

ChunkSpec == ChunkInit /\ [][ChunkNext]_vars

\* ------------------------------------------ the helper methods, call by call
\* The URL strings the helper methods are called on: at most MaxSegments path
\* segments, at most MaxSlashes "/" after them, with or without a fragment.
\* "_" sanitizes to nothing; "index" names the index file.
MaxSegments == 2
MaxSlashes == 2
\* Calls of each helper method on one URL string.
MaxCalls == 2

SegmentChoices ==
    { << "d" >>, << "a" >>, << "_" >>, << "i", "n", "d", "e", "x" >>,
      << "a", "d", "m", "i", "n" >> }

UrlStrings ==
    { Link(origin, segs, slashes, hash) :
        origin \in { "https://site", "https://other" },
        segs \in UNION { [1..k -> SegmentChoices] : k \in 0..MaxSegments },
        slashes \in 0..MaxSlashes,
        hash \in BOOLEAN }

\* normalized: the results of #normalizeUrl, applied first to url and then to
\* its own last result.  filenames: the results of #generateFilenameFromUrl
\* on url.  tick: the position in Timestamps of what Date.now() returns.
HelperAt(url) ==
    [url |-> url, normalized |-> << >>, tick |-> 1, filenames |-> << >>]

HelperInit ==
    /\ argv = NoArgv
    /\ crawl = NoCrawl
    /\ chunker = NoChunker
    /\ helper \in { HelperAt(u) : u \in UrlStrings }
    /\ dataMap = << >>
    /\ options = << >>
    /\ files = << >>
    /\ indexFile = NoFile
    /\ initial = [files |-> << >>, indexFile |-> NoFile]
    /\ pc = "crawl"
    /\ exitCode = -1
    /\ tasksState = << >>
    /\ taskKeys = << >>
    /\ tasksToRun = << >>
    /\ generationStats = [success |-> 0, error |-> 0, skipped |-> 0]
    /\ indexEntries = << >>
    /\ activePromises = {}
    /\ taskQueueIndex = 0
    /\ processingFinished = FALSE
    /\ execs = << >>
    /\ finishers = << >>
    /\ emptySeen = 0
    /\ indexWrites = << >>

HelperFrame ==
    UNCHANGED << argv, crawl, chunker, dataMap, options, files, indexFile, initial,
                 pc, exitCode, tasksState, taskKeys, tasksToRun, generationStats,
                 indexEntries, activePromises, taskQueueIndex, processingFinished,
                 execs, finishers, emptySeen, indexWrites >>

\* this.#normalizeUrl(s), s the URL string or what the last call returned.
NormalizeUrlCalled ==
    /\ helper # NoHelper
    /\ Len(helper.normalized) < MaxCalls
    /\ LET urlString == IF helper.normalized = << >> THEN helper.url
                        ELSE helper.normalized[Len(helper.normalized)]
       IN  helper' = [helper EXCEPT !.normalized = Append(@, normalizeUrl(urlString))]
    /\ HelperFrame

\* this.#generateFilenameFromUrl(url, baseUrlPathSegments)
GenerateFilenameCalled ==
    /\ helper # NoHelper
    /\ Len(helper.filenames) < MaxCalls
    /\ helper' = [helper EXCEPT !.filenames =
           Append(@, generateFilenameFromUrl(helper.url, baseUrlPathSegments,
                                             Timestamps[helper.tick]))]
    /\ HelperFrame

\* A millisecond passes between two calls.
ClockAdvances ==
    /\ helper # NoHelper
    /\ helper.tick < Len(Timestamps)
    /\ helper' = [helper EXCEPT !.tick = @ + 1]
    /\ HelperFrame

HelperNext ==
    \/ NormalizeUrlCalled
    \/ GenerateFilenameCalled
    \/ ClockAdvances

HelperSpec == HelperInit /\ [][HelperNext]_vars

\* ================================================================== claims
InFlightExecs == { i \in DOMAIN execs : InFlight(i) }
DoneExecs == { i \in DOMAIN execs : execs[i].pc = "done" }
\* The dataMap entries the materialization loop makes a task for.
MaterializedPages == { i \in DOMAIN dataMap : ~Falsy(dataMap[i].bodyHTML) }
EntriesOf(i) == { k \in DOMAIN indexEntries : indexEntries[k].exec = i }

\* C1: at every instant of the task phase the number of #processTask
\* executions started and not yet finished is at most options.maxConcurrent.
\* Stated as the claim states it; the code violates it when two crawled URLs
\* derive the same relativePath.
InFlightAtMostMaxConcurrent ==
    Cardinality(InFlightExecs) <= options.maxConcurrent

\* C2: this run's index entries are persisted to the index file at most once:
\* #finishProcessing and the SIGINT handler never both write them.  Stated as
\* the claim states it; the code violates it.
IndexPersistedOnce ==
    \A a, b \in DOMAIN indexWrites :
        (a # b /\ indexWrites[a].n > 0 /\ indexWrites[b].n > 0)
            => indexWrites[a].by = indexWrites[b].by

\* C3: once the scheduler has signalled completion, every element of the task
\* list has a finished execution with result success or error whose entry is
\* in indexEntries.  Stated as the claim states it; the code violates it.
CompletionMeansAllFinished ==
    processingFinished =>
        \A i \in DOMAIN execs :
            /\ execs[i].pc = "done"
            /\ execs[i].result \in { "success", "error" }
            /\ EntriesOf(i) # {}

\* C4: #finishProcessing is triggered at most once per run, however many
\* continuations see the queue drained.
FinalizationTriggeredOnce == Len(finishers) <= 1

\* C4 witness: a second continuation saw the drained queue after the
\* finalizer had been scheduled.
SecondContinuationSawDrained == emptySeen >= 2 /\ Len(finishers) = 1

\* C6: the statuses a task may move between in one step.
StatusStep(from, to) ==
    \/ from = to
    \/ from = "pending" /\ to \in { "skipped", "generating" }
    \/ from = "generating" /\ to \in { "saving", "error" }
    \/ from = "saving" /\ to \in { "success", "error" }

\* C6: every task's status moves only along Pending -> Skipped or
\* Pending -> Generating -> Saving -> Success|Error (Error also from
\* Generating); a terminal status never changes.  Stated as the claim states
\* it; the code violates it.
StatusMonotone ==
    [][\A k \in DOMAIN tasksState :
          k \in DOMAIN tasksState' =>
              StatusStep(tasksState[k].status, tasksState'[k].status)]_vars

FinalizationBegun == \E j \in DOMAIN finishers : finishers[j].pc # "timer"

\* C7: when finalization runs every task has a terminal status and
\* success + error + skipped is the number of materialized tasks.  Stated as
\* the claim states it; the code violates it.
CountersAddUpAtFinalization ==
    FinalizationBegun =>
        /\ \A k \in DOMAIN tasksState :
               tasksState[k].status \in { "success", "error", "skipped" }
        /\ generationStats.success + generationStats.error + generationStats.skipped
               = Cardinality(MaterializedPages)

SkippedAtMaterialization ==
    { i \in MaterializedPages :
        /\ ~options.shouldRegenerate
        /\ generateFilenameFromUrl(dataMap[i].url, baseUrlPathSegments, RunClock)
               \in DOMAIN initial.files }

FailedInGenerate == { i \in DOMAIN execs : execs[i].failedAt = "generate" }
NeverThrew == { i \in DOMAIN execs : execs[i].failedAt = "" }

\* C8: a failed task neither stalls the scheduler nor changes the outcome of
\* the others: while tasks remain un-admitted some execution is in flight,
\* and when nothing is in flight any more, with exactly one execution failed
\* in a transformation call and no other call failed, every other execution
\* ended in success and the counters read 1 error and (all others) success.
FailureIsolated ==
    pc = "tasks" =>
        /\ taskQueueIndex < Len(tasksToRun) => InFlightExecs # {}
        /\ ( /\ InFlightExecs = {}
             /\ Cardinality(FailedInGenerate) = 1
             /\ NeverThrew \cup FailedInGenerate = DOMAIN execs )
           => /\ \A i \in NeverThrew :
                     execs[i].pc = "done" /\ execs[i].result = "success"
              /\ generationStats.error = 1
              /\ generationStats.success
                     = Len(tasksToRun) - 1 + Cardinality(SkippedAtMaterialization)

\* C8 witness: three tasks ran, the first admitted failed in transformation,
\* the two others succeeded.
OneFailedSiblingsSucceeded ==
    /\ pc = "tasks"
    /\ Len(execs) = 3
    /\ DoneExecs = DOMAIN execs
    /\ FailedInGenerate = { 1 }
    /\ NeverThrew = { 2, 3 }
    /\ generationStats.error = 1
    /\ generationStats.success = 2

\* The materialization loop has run (it leaves a task for every page with
\* content).
TasksMaterialized == MaterializedPages = {} \/ taskKeys # << >>

\* C9: every element of the task list pushes exactly one index entry, when
\* its execution ends (in success or in error) and not before; so with no
\* artifact skipped, k materialized pages give k tasks and, once all have
\* ended, k entries.
OneEntryPerTask ==
    TasksMaterialized =>
        /\ \A i \in DOMAIN execs :
               Cardinality(EntriesOf(i)) = IF execs[i].pc = "done" THEN 1 ELSE 0
        /\ Len(indexEntries) = Cardinality(DoneExecs)
        /\ SkippedAtMaterialization = {} =>
               /\ Len(tasksToRun) = Cardinality(MaterializedPages)
               /\ DoneExecs = DOMAIN execs =>
                      Len(indexEntries) = Cardinality(MaterializedPages)

\* C9 witness: a 3-page site, nothing skipped, concurrency 2, all ended, one
\* of them in error: 3 entries.
ThreePagesThreeEntries ==
    /\ Cardinality(MaterializedPages) = 3
    /\ options.maxConcurrent = 2
    /\ SkippedAtMaterialization = {}
    /\ DoneExecs = DOMAIN execs
    /\ \E i \in DOMAIN execs : execs[i].result = "error"
    /\ \E i \in DOMAIN execs : execs[i].result = "success"
    /\ Len(indexEntries) = 3

SchedulerStarted == pc = "tasks" /\ tasksToRun # << >>
Interrupted == exitCode = 130
AllEndedAndSignalled ==
    /\ DoneExecs = DOMAIN execs
    /\ \A k \in DOMAIN tasksState : tasksState[k].status \in { "success", "error" }
    /\ processingFinished

\* C5: if every transformation call and every file write settles, then
\* (unless the user interrupts the run) every task of the task list
\* eventually has status success or error and completion is eventually
\* signalled, for every maxConcurrent and every pattern of failures.
EveryTaskEndsAndCompletionIsSignalled ==
    [](SchedulerStarted => <>(Interrupted \/ AllEndedAndSignalled))

\* C5 witness: three tasks run one at a time, one failed and one succeeded,
\* all ended and completion signalled, without interrupt.
ThreeTasksEndedOneAtATime ==
    /\ options.maxConcurrent = 1
    /\ Len(tasksToRun) = 3
    /\ AllEndedAndSignalled
    /\ ~Interrupted
    /\ \E i \in DOMAIN execs : execs[i].result = "error"
    /\ \E i \in DOMAIN execs : execs[i].result = "success"

FilenameOfPage(i) == generateFilenameFromUrl(dataMap[i].url, baseUrlPathSegments, RunClock)

\* C11: a task whose artifact exists at materialization, without the
\* regenerate flag, ends with status skipped and is counted by
\* generationStats.skipped, not by success or error.  Stated as the claim
\* states it; the code violates it (line 1044-1045 sets "success" and
\* increments success).
SkippedTaskCountedAsSkipped ==
    taskKeys # << >> =>
        /\ \A i \in SkippedAtMaterialization :
               tasksState[FilenameOfPage(i)].status = "skipped"
        /\ generationStats.skipped = Cardinality(SkippedAtMaterialization)

EntryCount(content) ==
    Cardinality({ k \in DOMAIN content : content[k].tok = "entry" })
SucceededExecs == { i \in DOMAIN execs : execs[i].result = "success" }
FailedExecs == { i \in DOMAIN execs : execs[i].result = "error" }
WrittenByFinish == { w \in DOMAIN indexWrites : indexWrites[w].by = "finish" }
\* The run ended on its own, and the write #finishProcessing made (if it
\* had entries to write) was carried out.
CompletedNormally ==
    /\ pc = "exit"
    /\ exitCode = 0
    /\ \A j \in DOMAIN finishers :
           finishers[j].content # << >> => WrittenByFinish # {}

\* C12 as stated: in regenerate mode the index written at finalization has
\* (tasks ended Success in this run) + (tasks Success at materialization)
\* entries.  The code violates it: failure entries are written too.
RegenerateIndexCountsSuccesses ==
    (options.shouldRegenerate /\ CompletedNormally /\ WrittenByFinish # {}) =>
        EntryCount(indexFile.content)
            = Cardinality(SucceededExecs) + Cardinality(SkippedAtMaterialization)

\* C12 as amended: in regenerate mode the content #finishProcessing builds
\* has one entry per execution ended so far, failed ones included (Success +
\* Error of this run as the counters read when finalization runs; no task is
\* Success at materialization in this mode), and the index file holds exactly
\* that content once the write is carried out.
RegenerateIndexCountsEveryEntry ==
    [][options.shouldRegenerate =>
          \A j \in DOMAIN finishers :
              /\ (finishers[j].pc = "timer" /\ finishers'[j].pc # "timer") =>
                     /\ finishers'[j].pc = "write"
                     /\ EntryCount(finishers'[j].content)
                            = generationStats.success + generationStats.error
                     /\ Cardinality(SkippedAtMaterialization) = 0
              /\ (finishers[j].pc = "write" /\ finishers'[j].pc = "written") =>
                     EntryCount(indexFile'.content)
                         = EntryCount(finishers[j].content)]_vars

\* C12 witness: a regenerated index of three entries, one of them a failure
\* entry, after a run of two successes and one failure.
RegeneratedIndexHoldsFailureEntry ==
    /\ options.shouldRegenerate
    /\ CompletedNormally
    /\ Cardinality(SucceededExecs) = 2
    /\ Cardinality(FailedExecs) = 1
    /\ EntryCount(indexFile.content) = 3
    /\ \E k \in DOMAIN indexFile.content : indexFile.content[k].error

\* C13: in incremental mode, after normal completion, the number of entries
\* appended to the index file is this run's Success count plus its Error
\* count.  Stated as the claim states it; the code violates it when two
\* crawled URLs derive the same relativePath (completion is then signalled
\* while an execution still runs).
AppendedCountIsSuccessPlusError ==
    (~options.shouldRegenerate /\ CompletedNormally) =>
        EntryCount(indexFile.content) - EntryCount(initial.indexFile.content)
            = Cardinality(SucceededExecs) + Cardinality(FailedExecs)

\* C14: in incremental mode the content the index file had before the run is
\* a prefix of its content at every later instant, on normal completion and
\* on interrupt alike.
PriorIndexContentIsPrefix ==
    ~options.shouldRegenerate =>
        /\ IsPrefix(initial.indexFile.content, indexFile.content)
        /\ initial.indexFile.exists => indexFile.exists

\* C14 witness: an index of an earlier run, appended to by #finishProcessing
\* and then again by the SIGINT handler.
OldIndexAppendedTwice ==
    /\ ~options.shouldRegenerate
    /\ initial.indexFile = FileWith(OldIndex)
    /\ Len(indexWrites) = 2
    /\ indexWrites[1].by = "finish"
    /\ indexWrites[2].by = "sigint"
    /\ Len(indexFile.content) > Len(OldIndex)
    /\ exitCode = 130

IsRunEntry(t) == t.tok = "entry" /\ t.exec > 0
\* The entries of this run's executions in the index file, in file order.
RunEntriesInFile == SelectSeq(indexFile.content, IsRunEntry)

\* C16: after finalization the entries this run wrote to the index file are
\* in ascending order of path, in either mode.  Stated as the claim states
\* it; the code violates it in incremental mode (no sort before appendFile).
RunEntriesAscending ==
    (Len(indexWrites) = 1 /\ WrittenByFinish = { 1 }) =>
        \A a, b \in DOMAIN RunEntriesInFile :
            a < b => localeCompare(PathString(RunEntriesInFile[a]),
                                   PathString(RunEntriesInFile[b])) <= 0

Chunking == chunker # NoChunker /\ chunker.pc \in { "loop", "done" }

\* C19: the chunks are consecutive slices of the body: chunk k is the slice
\* cuts[k].from .. cuts[k].to, each slice starts where the one before ended
\* (the first at 0), the chunks made so far concatenate to the body up to the
\* cursor, and when the loop is left to the whole body; the list is the one
\* #processTask sends (Chunks).
ChunksAreConsecutiveSlices ==
    Chunking =>
        LET c == chunker
        IN  /\ Len(c.cuts) = Len(c.chunks)
            /\ \A k \in DOMAIN c.cuts :
                   /\ c.chunks[k] = Substring(c.bodyHTML, c.cuts[k].from, c.cuts[k].to)
                   /\ c.cuts[k].from = IF k = 1 THEN 0 ELSE c.cuts[k - 1].to
            /\ Flatten(c.chunks, << >>) = Substring(c.bodyHTML, 0, c.currentIndex)
            /\ c.pc = "done" =>
                   /\ Flatten(c.chunks, << >>) = c.bodyHTML
                   /\ c.cuts[Len(c.cuts)].to = Len(c.bodyHTML)
                   /\ c.chunks = Chunks(c.bodyHTML)

\* C19 witness: a body cut once at a marker short of the threshold and
\* chunked to its end.
TwoChunksCutAtMarker ==
    /\ Chunking
    /\ chunker.pc = "done"
    /\ Len(chunker.chunks) = 2
    /\ chunker.cuts[1].to < MAX_CHUNK_SIZE
    /\ chunker.chunks[1] \o chunker.chunks[2] = chunker.bodyHTML

\* The 0-based positions in lo..hi at which a sentence-boundary marker starts.
MarkerStarts(bodyHTML, lo, hi) ==
    { q \in lo..hi :
        \E k \in DOMAIN endings :
            /\ q + Len(endings[k]) <= Len(bodyHTML)
            /\ Substring(bodyHTML, q, q + Len(endings[k])) = endings[k] }

\* The end of the marker that starts at q (no two markers start at the same
\* position).
MarkerEnd(bodyHTML, q) ==
    LET k == CHOOSE k \in DOMAIN endings :
                 /\ q + Len(endings[k]) <= Len(bodyHTML)
                 /\ Substring(bodyHTML, q, q + Len(endings[k])) = endings[k]
    IN  q + Len(endings[k])

\* The cut the claim prescribes for a chunk starting at from.
PrescribedCut(bodyHTML, from) ==
    LET threshold == from + MAX_CHUNK_SIZE
        starts == MarkerStarts(bodyHTML, Max(from, threshold - breakWindow),
                               threshold - 1)
    IN  IF starts = {} THEN threshold
        ELSE MarkerEnd(bodyHTML, CHOOSE q \in starts : \A r \in starts : r <= q)

\* C20: every non-final cut is at the end of the rightmost marker that
\* starts in the lookback window (the breakWindow positions before
\* cursor + MAX_CHUNK_SIZE), and exactly at cursor + MAX_CHUNK_SIZE when no
\* marker starts there; and a body of the scenario's length (two thresholds
\* and a remainder) is split into exactly 3 chunks.
CutsFollowMarkerRule ==
    Chunking =>
        /\ \A k \in DOMAIN chunker.cuts :
               chunker.cuts[k].to < Len(chunker.bodyHTML) =>
                   chunker.cuts[k].to
                       = PrescribedCut(chunker.bodyHTML, chunker.cuts[k].from)
        /\ (chunker.pc = "done" /\ Len(chunker.bodyHTML) = ScenarioLen) =>
               Len(chunker.chunks) = 3

\* C20 witness: a body of the scenario's length, its first cut at a marker
\* short of the threshold, its second exactly at cursor + MAX_CHUNK_SIZE, in
\* three chunks.
ScenarioBodyInThreeChunks ==
    /\ Chunking
    /\ chunker.pc = "done"
    /\ Len(chunker.bodyHTML) = ScenarioLen
    /\ Len(chunker.chunks) = 3
    /\ chunker.cuts[1].to < MAX_CHUNK_SIZE
    /\ chunker.cuts[2].to = chunker.cuts[2].from + MAX_CHUNK_SIZE

\* The value of the configured --maxConcurrent string is an integer > 0.
ConfiguredPositiveInteger ==
    LET n == ToNumber(argv.maxConcurrent)
    IN  argv.maxConcurrent # << >> /\ ~n.nan /\ ~n.frac /\ ~n.neg /\ n.int > 0

NothingMaterialized ==
    /\ tasksState = << >>
    /\ tasksToRun = << >>
    /\ execs = << >>
    /\ files = initial.files

CrawlCameBackEmpty ==
    crawl # NoCrawl /\ crawl.pc = "returned" /\ crawl.collectedData = << >>

\* C17 as stated: a crawl that produces zero pages ends the process with a
\* non-zero status before any task is materialized.  The code violates it:
\* it exits with status 0.
EmptyCrawlExitsNonZero ==
    CrawlCameBackEmpty =>
        /\ pc = "exit"
        /\ exitCode # 0
        /\ NothingMaterialized

\* C17 as amended: a start URL rejected by the exclusion rules leaves the
\* queue empty, no page is fetched and the crawl result is empty; and a
\* crawl that produces zero pages ends the process, with status 0, before
\* any task is materialized or run.
EmptyCrawlExitsZero ==
    /\ ( /\ crawl # NoCrawl
         /\ crawl.pc # "launch"
         /\ IsExcluded(BaseUrl.segs, argv.excludePaths) )
       => /\ crawl.fetches = << >>
          /\ crawl.collectedData = << >>
          /\ crawl.pc = "returned" => CrawlCameBackEmpty
    /\ CrawlCameBackEmpty =>
          /\ pc = "exit"
          /\ exitCode = 0
          /\ NothingMaterialized

\* C17 witness: the start URL https://site/d is excluded by "/d/", the crawl
\* returned no page and the process has exited.
ExcludedStartExited ==
    /\ CrawlCameBackEmpty
    /\ IsExcluded(BaseUrl.segs, argv.excludePaths)
    /\ pc = "exit"
    /\ exitCode = 0

\* C18: a configured concurrency bound that is not a positive integer ends
\* the run with status 1 before any page is fetched and before any task is
\* created (unless the user interrupts it first).  Stated as the claim
\* states it; the code violates it: parseInt accepts "2.5" as 2.
InvalidConcurrencyAborts ==
    (argv # NoArgv /\ pc # "options" /\ ~ConfiguredPositiveInteger
        /\ exitCode # 130) =>
        /\ pc = "exit"
        /\ exitCode = 1
        /\ crawl = NoCrawl
        /\ NothingMaterialized

\* ------------------------------------------------------------------- scope
\* The exclusion ex, with its enclosing slashes trimmed, is the segment seg.
NamesSegment(ex, seg) ==
    /\ seg # << >>
    /\ seg[1] # "/"
    /\ seg[Len(seg)] # "/"
    /\ \E i, j \in 0..Len(ex) : ex = Slashes(i) \o seg \o Slashes(j)

HasExcludedSegment(u, excludePaths) ==
    \E k \in DOMAIN excludePaths, j \in DOMAIN u.segs :
        NamesSegment(excludePaths[k], u.segs[j])

\* The path of u as a string: the segments, each after a "/", and the "/"
\* that end it.
PathOf(u) ==
    LET joined == [k \in DOMAIN u.segs |-> << "/" >> \o u.segs[k]]
        trailing == [k \in 1..u.slashes |-> "/"]
    IN  IF u.segs = << >> /\ u.slashes = 0 THEN << "/" >>
        ELSE Flatten(joined, << >>) \o trailing

\* inScope: the start URL's origin, a path that starts with the start path,
\* no segment that is a configured exclusion.
InScope(u, excludePaths) ==
    /\ u.origin = BaseUrl.origin
    /\ IsPrefix(PathOf(BaseUrl), PathOf(u))
    /\ ~HasExcludedSegment(u, excludePaths)

\* C21: for every URL string u, normalizing the result of normalize(u) again
\* gives the same string.
NormalizeIsIdempotent ==
    helper # NoHelper /\ Len(helper.normalized) >= 2 =>
        helper.normalized[2] = helper.normalized[1]

\* The URLs the crawl has queued, is fetching or has fetched.
Admitted(c) == Range(c.queue) \cup Range(c.fetches) \cup Keys(c.collectedData)

\* The step in which the page at crawl.currentUrl has loaded and its links
\* have been gone through.
CurrentPageLoaded ==
    /\ Crawling("goto")
    /\ crawl' # crawl
    /\ \E k \in DOMAIN crawl'.collectedData :
           /\ crawl'.collectedData[k].url = crawl.currentUrl
           /\ crawl'.collectedData[k].bodyHTML # NULL

\* The queue had no room left for a link of the page just gone through.
FrontierFilled ==
    Len(ProcessLinks(crawl, PageAt(crawl.currentUrl).links, argv.excludePaths).queue)
        + 1 >= QueueCap

\* C22: a link with a path segment equal to a configured exclusion (its
\* enclosing slashes trimmed) is never queued and never fetched, and a link
\* in scope none of whose segments equals an exclusion is not held back by
\* the exclusions, whatever its segments contain: once its page has been
\* gone through it is queued, being fetched or fetched, unless the queue was
\* full.
ExclusionIsBySegment ==
    [][ /\ crawl' # NoCrawl =>
              \A u \in Admitted(crawl') : ~HasExcludedSegment(u, argv.excludePaths)
        /\ CurrentPageLoaded =>
              \A k \in DOMAIN PageAt(crawl.currentUrl).links :
                  LET normLink == normalizeUrl(PageAt(crawl.currentUrl).links[k])
                  IN  InScope(normLink, argv.excludePaths) =>
                          \/ normLink \in Admitted(crawl')
                          \/ FrontierFilled ]_vars

\* C22 witness: with the exclusion "/admin" the crawl has returned; the page
\* /d/admins, found on /d/a, was fetched and /d/admin/x, found on /d, was not.
AdminsFetchedAdminSkipped ==
    /\ crawl # NoCrawl
    /\ crawl.pc = "returned"
    /\ argv.excludePaths = << << "/", "a", "d", "m", "i", "n" >> >>
    /\ Link("https://site", << << "d" >>, << "a", "d", "m", "i", "n", "s" >> >>, 0, FALSE)
           \in Range(crawl.fetches)
    /\ Link("https://site", << << "d" >>, << "a" >> >>, 0, FALSE)
           \in Keys(crawl.collectedData)
    /\ Link("https://site", << << "d" >>, << "a", "d", "m", "i", "n" >>, << "x" >> >>,
            0, FALSE) \notin Admitted(crawl)

\* C23: the source URL of every materialized task is in scope: it has the
\* start URL's origin, its path starts with the start path, and none of its
\* segments is a configured exclusion.
MaterializedTasksInScope ==
    argv # NoArgv =>
        \A k \in DOMAIN tasksState : InScope(tasksState[k].url, argv.excludePaths)

\* C23 witness: with the exclusion "/admin", tasks have been materialized
\* for the start page, for /d/a and for /d/admins, and none for /d/admin/x.
CrawledPagesMaterialized ==
    /\ argv # NoArgv
    /\ pc = "tasks"
    /\ argv.excludePaths = << << "/", "a", "d", "m", "i", "n" >> >>
    /\ { tasksState[k].url : k \in DOMAIN tasksState } =
           { Link("https://site", << << "d" >> >>, 0, FALSE),
             Link("https://site", << << "d" >>, << "a" >> >>, 0, FALSE),
             Link("https://site", << << "d" >>, << "a", "d", "m", "i", "n", "s" >> >>,
                  0, FALSE),
             Link("https://site", << << "d" >>, << "b" >> >>, 0, FALSE),
             Link("https://site", << << "d", "x" >> >>, 0, FALSE) }

\* The crawl result holds url with the null-content sentinel.
RecordedAsFailed(c, url) ==
    \E k \in DOMAIN c.collectedData :
        c.collectedData[k].url = url /\ c.collectedData[k].bodyHTML = NULL

\* C24: when the fetch of a page fails, its URL is recorded in the crawl
\* result with the null-content sentinel and the crawl goes on: the process
\* does not exit, no queued URL is dropped, and the loop is left only with an
\* empty queue and every fetched URL recorded.
FetchFailureDoesNotEndCrawl ==
    [][ /\ PageFails =>
              /\ RecordedAsFailed(crawl', crawl.currentUrl)
              /\ pc' = "crawl"
              /\ exitCode' = -1
              /\ crawl'.pc \in { "goto", "closing" }
              /\ Range(crawl.queue) \subseteq
                     Range(crawl'.queue) \cup { crawl'.currentUrl }
                         \cup Keys(crawl'.collectedData)
        /\ (crawl' # NoCrawl /\ crawl'.pc \in { "closing", "returned" }) =>
              /\ crawl'.queue = << >>
              /\ Range(crawl'.fetches) \subseteq Keys(crawl'.collectedData) ]_vars

\* C24 witness: the crawl has returned; /d/a failed to load and https://site/dx,
\* queued at that moment, was fetched after it and loaded.
CrawlWentOnAfterFailure ==
    /\ crawl # NoCrawl
    /\ crawl.pc = "returned"
    /\ pc = "prepare"
    /\ RecordedAsFailed(crawl, Link("https://site", << << "d" >>, << "a" >> >>, 0, FALSE))
    /\ \E i, j \in DOMAIN crawl.fetches :
           /\ i < j
           /\ crawl.fetches[i] = Link("https://site", << << "d" >>, << "a" >> >>, 0, FALSE)
           /\ crawl.fetches[j] = Link("https://site", << << "d", "x" >> >>, 0, FALSE)
    /\ \E k \in DOMAIN dataMap :
           /\ dataMap[k].url = Link("https://site", << << "d", "x" >> >>, 0, FALSE)
           /\ dataMap[k].bodyHTML = << "z" >>

\* --------------------------------------------------------------- admission
\* The positions of tasksToRun whose execution has been started.
AdmittedExecs == { i \in DOMAIN execs : execs[i].pc # "pending" }

\* C25: the tasks are started in the order of the materialized list: at every
\* moment the started executions are those of the first taskQueueIndex
\* positions, so that position i is started before position i + 1 whatever
\* the order in which the earlier ones end.
AdmissionFollowsListOrder ==
    AdmittedExecs = 1..Min(taskQueueIndex, Len(execs))

\* C25 witness: of three tasks, with two at a time, the second has ended
\* while the first is still running, and the third has been started.
ThirdStartedAfterSecondEnded ==
    /\ Len(execs) = 3
    /\ options.maxConcurrent = 2
    /\ execs[1].pc \in { "generating", "saving" }
    /\ execs[2].pc = "done"
    /\ execs[3].pc # "pending"

\* ---------------------------------------------------------------- filenames
\* C26: #generateFilenameFromUrl is deterministic: called again on the same
\* URL with the same start-path segments it returns the same filename.
\* Stated as the claim states it; the code violates it through the
\* `page-${Date.now()}` fallback.
FilenameIsDeterministic ==
    helper # NoHelper =>
        \A j, k \in DOMAIN helper.filenames : helper.filenames[j] = helper.filenames[k]

\* <siteDocsDir>/index.md, without its extension.
IndexFileName == << "i", "n", "d", "e", "x" >>

\* C28: for a URL in scope, the filename derived for its artifact is not the
\* index file's name.  Stated as the claim states it; the code violates it
\* for a page whose remaining path is "index".
TargetPathIsNotIndexPath ==
    (helper # NoHelper /\ InScope(helper.url, << >>)) =>
        \A k \in DOMAIN helper.filenames : helper.filenames[k] # IndexFileName

\* ----------------------------------------------------------------- registry
\* C27: at every instant activePromises holds one entry per execution that
\* has started and not yet finished, so that its size is the number of
\* running executions.  Stated as the claim states it; the code violates it
\* when the task list names an identifier twice.
RegistryHoldsRunningExecutions ==
    /\ Cardinality(activePromises) = Cardinality(InFlightExecs)
    /\ activePromises = { tasksToRun[i] : i \in InFlightExecs }

\* ---------------------------------------------------------------- chunk size
\* C29: every chunk has at most MAX_CHUNK_SIZE characters.  Stated as the
\* claim states it; the code violates it when a two-character marker starts
\* at the last position before the threshold.
ChunksWithinThreshold ==
    Chunking =>
        \A k \in DOMAIN chunker.chunks : Len(chunker.chunks[k]) <= MAX_CHUNK_SIZE

\* ------------------------------------------------------------ task failure
\* The execution at position i ends in this step because a step of it threw.
Throws(i) ==
    /\ execs[i].pc \in { "generating", "saving" }
    /\ execs'[i].pc = "done"
    /\ execs'[i].failedAt # ""

\* The executions of the identifier at position i started in this step.
RestartedWith(i) ==
    { j \in DOMAIN execs :
        /\ tasksToRun[j] = tasksToRun[i]
        /\ execs[j].pc = "pending"
        /\ execs'[j].pc # "pending" }

\* C30: when a step of a task throws (a transformation call or the file
\* write), the error counter rises by one, the success counter is unchanged,
\* one failure entry whose path is the target path followed by ".error" is
\* appended to indexEntries and nothing else is, and the task's status is
\* Error (until another execution of the same identifier, if the list names
\* it twice, is started by the continuation).
ThrowingTaskEndsInError ==
    [][ \A i \in DOMAIN execs :
            Throws(i) =>
                LET relativePath == tasksToRun[i]
                    failure == indexEntries'[Len(indexEntries')]
                IN  /\ generationStats'.error = generationStats.error + 1
                    /\ generationStats'.success = generationStats.success
                    /\ Len(indexEntries') = Len(indexEntries) + 1
                    /\ SubSeq(indexEntries', 1, Len(indexEntries)) = indexEntries
                    /\ failure.tok = "entry"
                    /\ failure.exec = i
                    /\ PathString(failure) =
                           tasksState[relativePath].filename
                               \o << ".", "m", "d", ".", "e", "r", "r", "o", "r" >>
                    /\ \/ tasksState'[relativePath].status = "error"
                       \/ RestartedWith(i) # {}
                    /\ files' = files ]_vars

\* C30 witness: one task failed in a transformation call and another in the
\* file write; both have status Error and a failure entry, no task
\* succeeded.
FailedInGenerateAndInWrite ==
    /\ pc = "tasks"
    /\ \E i, j \in DOMAIN execs :
           /\ execs[i].failedAt = "generate"
           /\ execs[j].failedAt = "write"
           /\ tasksToRun[i] # tasksToRun[j]
           /\ tasksState[tasksToRun[i]].status = "error"
           /\ tasksState[tasksToRun[j]].status = "error"
           /\ EntriesOf(i) # {} /\ EntriesOf(j) # {}
    /\ generationStats.error = 2
    /\ generationStats.success = 0

\* ------------------------------------------------------ transformation calls
\* C31: within one execution generateObject is called at most once per
\* chunk, in chunk order (the k-th call is for chunk k); once a call has
\* failed the execution has ended with an error, and an execution that has
\* ended makes no further call.
OneCallPerChunkInOrder ==
    [][ \A i \in DOMAIN execs' :
            LET e == execs'[i]
            IN  /\ e.pc # "pending" =>
                       /\ e.calls = e.chunk
                       /\ e.calls <= e.nChunks
                /\ e.pc = "saving" => e.calls = e.nChunks
                /\ e.failedAt = "generate" =>
                       /\ e.pc = "done"
                       /\ e.result = "error"
                /\ (i \in DOMAIN execs /\ execs[i].pc # "pending") =>
                       /\ e.calls \in { execs[i].calls, execs[i].calls + 1 }
                       /\ execs[i].pc = "done" => e = execs[i] ]_vars

\* C31 witness: a page in two chunks whose first transformation call
\* failed: one call was made, the second chunk was never sent, the task is
\* in status Error.
SecondChunkNeverSent ==
    \E i \in DOMAIN execs :
        /\ execs[i].nChunks = 2
        /\ execs[i].calls = 1
        /\ execs[i].failedAt = "generate"
        /\ execs[i].pc = "done"
        /\ tasksState[tasksToRun[i]].status = "error"

\* ------------------------------------------------------------- no early write
\* No execution with target path f has reached Saving: each is pending,
\* generating, or failed in a transformation call.
NoneReachedSaving(f) ==
    \A i \in DOMAIN execs :
        tasksToRun[i] = f =>
            \/ execs[i].pc \in { "pending", "generating" }
            \/ execs[i].failedAt = "generate"

\* C32: a task that fails before Saving makes no write to its target path:
\* as long as no execution for that path has reached Saving, a file that
\* existed there has the content it had before the run and no file has been
\* created there.
NoWriteBeforeSaving ==
    \A f \in Range(tasksToRun) :
        NoneReachedSaving(f) =>
            /\ f \in DOMAIN files <=> f \in DOMAIN initial.files
            /\ f \in DOMAIN files => files[f] = initial.files[f]

\* C32 witness: with the regenerate flag, a task whose artifact existed
\* failed in a transformation call, the execution has ended and the file
\* still holds the old content.
FailedEarlyFileUntouched ==
    \E i \in DOMAIN execs :
        /\ options.shouldRegenerate
        /\ execs[i].failedAt = "generate"
        /\ execs[i].pc = "done"
        /\ NoneReachedSaving(tasksToRun[i])
        /\ tasksToRun[i] \in DOMAIN files
        /\ files[tasksToRun[i]] = OldContent

\* ------------------------------------------------------------ no free slot
\* C33: when #runNext has returned without signalling completion, every
\* task identifier has been admitted or exactly maxConcurrent executions are
\* registered in activePromises.  (Every step of the task phase that changes
\* the registry ends with #runNext.)
NoFreeSlotWhileTasksRemain ==
    pc = "tasks" =>
        \/ taskQueueIndex = Len(tasksToRun)
        \/ Cardinality(activePromises) = options.maxConcurrent

\* C33 witness: one at a time; the first of three tasks has ended, its
\* continuation admitted the second, the third is still to be admitted.
SlotRefilledThirdWaiting ==
    /\ pc = "tasks"
    /\ options.maxConcurrent = 1
    /\ Len(tasksToRun) = 3
    /\ execs[1].pc = "done"
    /\ execs[2].pc = "generating"
    /\ execs[3].pc = "pending"
    /\ taskQueueIndex = 2
    /\ Cardinality(activePromises) = 1
    /\ ~processingFinished

\* ------------------------------------------------------- crawl completeness
\* The URLs recorded with content: their pages were fetched successfully.
LoadedPages(c) ==
    { c.collectedData[k].url :
        k \in { j \in DOMAIN c.collectedData : c.collectedData[j].bodyHTML # NULL } }

\* The in-scope URLs linked from some page that was fetched successfully.
LinkedInScope(c) ==
    { u \in UNION { { normalizeUrl(PageAt(p).links[k]) : k \in DOMAIN PageAt(p).links } :
                      p \in LoadedPages(c) } :
        InScope(u, argv.excludePaths) }

CrawlEnded == crawl # NoCrawl /\ crawl.pc \in { "closing", "returned" }

FrontierIsUnvisited ==
    crawl # NoCrawl => Range(crawl.queue) \cap Keys(crawl.collectedData) = {}

\* ---------------------------------------------------- one fetch for each URL
\* The positions at which url was handed to page.goto.
FetchesOf(c, url) == { i \in DOMAIN c.fetches : c.fetches[i] = url }

\* C36: during a crawl each normalized URL is handed to page.goto at most
\* once, and it is the key of at most one entry of the crawl result.
EachUrlFetchedOnce ==
    crawl # NoCrawl =>
        /\ \A i, j \in DOMAIN crawl.fetches :
               crawl.fetches[i] = crawl.fetches[j] => i = j
        /\ \A i, j \in DOMAIN crawl.collectedData :
               crawl.collectedData[i].url = crawl.collectedData[j].url => i = j

\* C36 witness: the crawl has returned; /d, which links to itself and is
\* linked from /d/a, and /d/a, which /d links twice, were both loaded, and
\* each was fetched once.
LinkedTwiceFetchedOnce ==
    /\ crawl # NoCrawl
    /\ crawl.pc = "returned"
    /\ { Link("https://site", << << "d" >> >>, 0, FALSE),
         Link("https://site", << << "d" >>, << "a" >> >>, 0, FALSE) }
           \subseteq LoadedPages(crawl)
    /\ Cardinality(FetchesOf(crawl, Link("https://site", << << "d" >> >>, 0, FALSE))) = 1
    /\ Cardinality(FetchesOf(crawl,
           Link("https://site", << << "d" >>, << "a" >> >>, 0, FALSE))) = 1

\* ------------------------------------------------ the crawl loop terminates
\* C37: when every page fetch returns or fails, a crawl that has entered its
\* loop leaves it: the queue becomes empty and the crawl result is returned
\* (unless the process is ended first, by a signal or by browser.close
\* rejecting).
CrawlLoopTerminates ==
    Crawling("goto") ~>
        \/ pc = "exit"
        \/ /\ crawl # NoCrawl
           /\ crawl.pc = "returned"
           /\ crawl.queue = << >>
           /\ dataMap = crawl.collectedData

\* C37 witness: the crawl has returned with an empty queue after four
\* fetches, one of which failed.
CrawlReturnedAfterFourFetches ==
    /\ crawl # NoCrawl
    /\ crawl.pc = "returned"
    /\ pc = "prepare"
    /\ crawl.queue = << >>
    /\ Len(crawl.fetches) >= 4
    /\ LoadedPages(crawl) # Keys(crawl.collectedData)
    /\ dataMap = crawl.collectedData

\* --------------------------------------------- the chunking loop terminates
\* Every chunks.push so far moved the cursor forward and pushed a non-empty
\* chunk.
CursorAdvanced ==
    chunker # NoChunker /\ chunker.pc \in { "loop", "done" } =>
        /\ Len(chunker.chunks) = Len(chunker.cuts)
        /\ \A k \in DOMAIN chunker.cuts :
               /\ chunker.cuts[k].from < chunker.cuts[k].to
               /\ chunker.cuts[k].to <= Len(chunker.bodyHTML)
               /\ chunker.chunks[k] # << >>

\* C38: for every body longer than MAX_CHUNK_SIZE the chunking loop ends:
\* every iteration moves the cursor forward and pushes a non-empty chunk,
\* the cursor never passes the end of the body, so the loop makes at most
\* as many iterations as the body has characters, and it is left with the
\* cursor at the end of the body.
ChunkingTerminates ==
    chunker # NoChunker /\ chunker.pc \in { "loop", "done" } =>
        /\ CursorAdvanced
        /\ chunker.currentIndex <= Len(chunker.bodyHTML)
        /\ chunker.currentIndex =
               IF chunker.cuts = << >> THEN 0 ELSE chunker.cuts[Len(chunker.cuts)].to
        /\ Len(chunker.cuts) <= chunker.currentIndex
        /\ chunker.pc = "done" => chunker.currentIndex = Len(chunker.bodyHTML)

\* C38 witness: the loop has ended on a body that has a marker at its first
\* position, after at least two iterations.
ChunkingEndedAfterLeadingMarker ==
    /\ chunker # NoChunker
    /\ chunker.pc = "done"
    /\ Len(chunker.bodyHTML) > MAX_CHUNK_SIZE
    /\ chunker.bodyHTML[1] = "\n"
    /\ Len(chunker.chunks) >= 2

\* --------------------------------------------------- a newly created index
\* The index file did not exist before the run and its first write was made
\* by #finishProcessing.
IndexCreatedByFinalization ==
    /\ initial.indexFile = NoFile
    /\ indexFile.exists
    /\ indexWrites # << >>
    /\ indexWrites[1].by = "finish"

\* C39: an index file that did not exist before the run and is created by
\* finalization begins with the header line, in either mode.  The code
\* violates it in incremental mode: appendFile creates the file with the
\* entries alone.
NewIndexBeginsWithHeader ==
    IndexCreatedByFinalization =>
        /\ indexFile.content # << >>
        /\ indexFile.content[1] = Header

====
